---- MODULE Spec2Model ----
(***************************************************************************)
(* Motion-chain resolution of the motion planner (package motionplan):     *)
(* findPivotFrame, uniqInPlaceSlice, motionChainFromGoal and               *)
(* motionChainsFromPlanState, applied to frame systems built frame by      *)
(* frame; the geometry partition and the goal translation of motionChains; *)
(* linearizedFrameSystem; resultPromise; CalculateStepCount.  A frame is   *)
(* identified by its name; names are integers and World is 0.              *)
(* Module status tracking (package modmanager): ModuleResource and         *)
(* ModuleStatusManager over a resource graph.                              *)
(***************************************************************************)
EXTENDS Integers, Sequences, FiniteSets, TLC

VARIABLES fs, out, rp, msm, conc

vars == <<fs, out, rp, msm, conc>>

(* ------------------------------ bounds --------------------------------- *)

\* frames besides World in the frame systems the aggregate is built on
MaxFrames == 2
\* goals (pose goals plus configuration goals) of one PlanState
MaxGoals == 2
\* frames besides World in the frame systems a single chain is built on
MaxChainFrames == 3

(* ---------------------------- frame system ----------------------------- *)

World == 0
NoFrame == -1

\* fixed: no degree of freedom; joint: ordinary moving frame;
\* ptg: a frame that is a tpspace.PTGProvider
Kinds == {"fixed", "joint", "ptg"}

Names(bound) == 0..bound

NewEmptyFrameSystem == << >>

FrameNames(f) == {World} \cup (1..Len(f))

\* FrameSystem.Frame(name) # nil
FrameExists(f, name) == name \in FrameNames(f)

Parent(f, name) == f[name].parent

\* len(frame.DoF())
DoF(f, name) == IF name = World \/ f[name].kind = "fixed" THEN 0 ELSE 1

\* _, isPTGframe := frame.(tpspace.PTGProvider)
IsPTG(f, name) == name # World /\ f[name].kind = "ptg"

RECURSIVE TracebackFrame(_, _)
\* the frame, its parent, ... up to World
TracebackFrame(f, name) ==
    IF name = World THEN <<World>>
    ELSE <<name>> \o TracebackFrame(f, Parent(f, name))

Range(s) == {s[i] : i \in 1..Len(s)}

\* the frames of the sub frame system rooted at root: root and its descendants
FrameSystemSubset(f, root) ==
    {n \in 1..Len(f) : root \in Range(TracebackFrame(f, n))}

\* the merged frame set, or an error when a frame would be added twice
MergeFrameSystem(a, b) ==
    [err |-> (a \cap b) # {}, frames |-> a \cup b]

(* ------------------------------- errors -------------------------------- *)

NoErr == "nil"
ErrFrameMissing == "frame missing"
ErrSolveListEmpty == "solveFrameList was empty"
ErrNoPath == "no path from solve frame to goal frame"
ErrNoChain == "must have at least one motion chain"
ErrOnePTG == "only one PTG frame can be planned for at a time"
ErrMixedFrameTypes == "errMixedFrameTypes"
ErrMerge == "frame already in frame system"

(* --------------------------- findPivotFrame ---------------------------- *)

RECURSIVE FirstSeen(_, _, _)
\* the first frame of list, from index i on, whose name is in nameSet
FirstSeen(list, i, nameSet) ==
    IF i > Len(list) THEN [err |-> ErrNoPath, frame |-> NoFrame]
    ELSE IF list[i] \in nameSet THEN [err |-> NoErr, frame |-> list[i]]
    ELSE FirstSeen(list, i + 1, nameSet)

\* the names of the list scanned are cached instead of those of the short list
FindPivotFrameCachesLongList(frameList1, frameList2) ==
    LET swap == Len(frameList1) > Len(frameList2)
        longList == IF swap THEN frameList1 ELSE frameList2
    IN  FirstSeen(longList, 1, Range(longList))

\* the long list is scanned from World instead of from the leaf
FindPivotFrameFromRoot(frameList1, frameList2) ==
    LET swap == Len(frameList1) > Len(frameList2)
        shortList == IF swap THEN frameList2 ELSE frameList1
        longList == IF swap THEN frameList1 ELSE frameList2
    IN  IF longList[Len(longList)] \in Range(shortList)
        THEN [err |-> NoErr, frame |-> longList[Len(longList)]]
        ELSE [err |-> ErrNoPath, frame |-> NoFrame]

\* the scan of the long list starts after its first frame
FindPivotFrameSkipsFirst(frameList1, frameList2) ==
    LET swap == Len(frameList1) > Len(frameList2)
        shortList == IF swap THEN frameList2 ELSE frameList1
        longList == IF swap THEN frameList1 ELSE frameList2
    IN  FirstSeen(longList, 2, Range(shortList))

FindPivotFrame(frameList1, frameList2) ==
    LET swap == Len(frameList1) > Len(frameList2)
        shortList == IF swap THEN frameList2 ELSE frameList1
        longList == IF swap THEN frameList1 ELSE frameList2
        nameSet == Range(shortList)
    IN  FirstSeen(longList, 1, nameSet)

(* -------------------------- uniqInPlaceSlice --------------------------- *)

RECURSIVE UniqLoop(_, _, _, _)
\* s is the backing array, i the index read, j the index written
UniqLoop(s, i, j, seen) ==
    IF i > Len(s) THEN SubSeq(s, 1, j - 1)
    ELSE IF s[i] \in seen THEN UniqLoop(s, i + 1, j, seen)
    ELSE UniqLoop([s EXCEPT ![j] = s[i]], i + 1, j + 1, seen \cup {s[i]})

\* the slice is returned as it came
UniqInPlaceSliceKeepsAll(s) == s

UniqInPlaceSlice(s) == UniqLoop(s, 1, 1, {})

(* ------------------------- motionChainFromGoal ------------------------- *)

RECURSIVE FirstMoving(_, _, _)
\* the frame of frameList with nonzero DoF met first from index i downwards
FirstMoving(f, frameList, i) ==
    IF i < 1 THEN NoFrame
    ELSE IF DoF(f, frameList[i]) # 0 THEN frameList[i]
    ELSE FirstMoving(f, frameList, i - 1)

RECURSIVE FirstMovingFromLeaf(_, _, _)
FirstMovingFromLeaf(f, frameList, i) ==
    IF i > Len(frameList) THEN NoFrame
    ELSE IF DoF(f, frameList[i]) # 0 THEN frameList[i]
    ELSE FirstMovingFromLeaf(f, frameList, i + 1)

\* the list is scanned from its first frame (the leaf) instead of from its last
MovingFSFromLeaf(f, frameList) ==
    LET moveF == FirstMovingFromLeaf(f, frameList, 1)
    IN  IF moveF = NoFrame THEN {} ELSE FrameSystemSubset(f, moveF)

\* the closure movingFS of motionChainFromGoal
MovingFS(f, frameList) ==
    LET moveF == FirstMoving(f, frameList, Len(frameList))
    IN  IF moveF = NoFrame THEN {} ELSE FrameSystemSubset(f, moveF)

RECURSIVE UpTo(_, _, _)
\* the frames of frameList before pivotFrame, from index i on
UpTo(frameList, i, pivotFrame) ==
    IF i > Len(frameList) \/ frameList[i] = pivotFrame THEN << >>
    ELSE <<frameList[i]>> \o UpTo(frameList, i + 1, pivotFrame)

RECURSIVE SumDoF(_, _, _)
SumDoF(f, frameList, i) ==
    IF i > Len(frameList) THEN 0
    ELSE DoF(f, frameList[i]) + SumDoF(f, frameList, i + 1)

\* a motionChain, with the error returned (NoErr with a chain), the number of
\* fs.Frame and fs.TracebackFrame calls made, and the calls of movingFS made
Chain(err, moving, frames, solve, goal, worldRooted, fsCalls, sides) ==
    [err |-> err, movingFS |-> moving, frames |-> frames,
     solveFrameName |-> solve, goalFrameName |-> goal,
     worldRooted |-> worldRooted, fsCalls |-> fsCalls, sides |-> sides]

ChainErr(err, fsCalls) ==
    Chain(err, {}, << >>, NoFrame, NoFrame, FALSE, fsCalls, << >>)

Side(f, frameList) == [list |-> frameList, moving |-> MovingFS(f, frameList)]

\* the chain built from the lists of the two sides of the pivot
Merged(f, frames, solveList, goalList, moveFrame, goalFrameName) ==
    LET s1 == Side(f, solveList)
        s2 == Side(f, goalList)
        m == MergeFrameSystem(s1.moving, s2.moving)
    IN  IF m.err THEN ChainErr(ErrMerge, 4)
        ELSE Chain(NoErr, m.frames, frames, moveFrame, goalFrameName,
                   FALSE, 4, <<s1, s2>>)

\* the zero-DoF branch keeps the minimal frame list instead of the solve list
MotionChainFromPivotKeepsMinimal(f, pivotFrame, solveFrameList, goalFrameList, moveFrame, goalFrameName) ==
    IF pivotFrame = World
    THEN Merged(f, UniqInPlaceSlice(solveFrameList \o goalFrameList),
                solveFrameList, goalFrameList, moveFrame, goalFrameName)
    ELSE LET solveMovingList == UpTo(solveFrameList, 1, pivotFrame)
             goalMovingList == UpTo(goalFrameList, 1, pivotFrame)
             frames == solveMovingList \o goalMovingList
             dof == SumDoF(f, solveMovingList, 1) + SumDoF(f, goalMovingList, 1)
         IN  IF dof = 0
             THEN LET s1 == Side(f, solveMovingList)
                  IN  Chain(NoErr, s1.moving, frames, moveFrame,
                            goalFrameName, TRUE, 4, <<s1>>)
             ELSE Merged(f, frames, solveMovingList, goalMovingList,
                         moveFrame, goalFrameName)

\* the minimal frame list stops after the pivot instead of before it
MotionChainFromPivotKeepsPivot(f, pivotFrame, solveFrameList, goalFrameList, moveFrame, goalFrameName) ==
    IF pivotFrame = World
    THEN Merged(f, UniqInPlaceSlice(solveFrameList \o goalFrameList),
                solveFrameList, goalFrameList, moveFrame, goalFrameName)
    ELSE LET solveMovingList == UpTo(solveFrameList, 1, pivotFrame) \o <<pivotFrame>>
             goalMovingList == UpTo(goalFrameList, 1, pivotFrame)
             frames == solveMovingList \o goalMovingList
             dof == SumDoF(f, solveMovingList, 1) + SumDoF(f, goalMovingList, 1)
         IN  IF dof = 0
             THEN LET s1 == Side(f, solveFrameList)
                  IN  Chain(NoErr, s1.moving, solveFrameList, moveFrame,
                            goalFrameName, TRUE, 4, <<s1>>)
             ELSE Merged(f, frames, solveMovingList, goalMovingList,
                         moveFrame, goalFrameName)

\* only the solve side is counted in dof
MotionChainFromPivotSolveDoF(f, pivotFrame, solveFrameList, goalFrameList, moveFrame, goalFrameName) ==
    IF pivotFrame = World
    THEN Merged(f, UniqInPlaceSlice(solveFrameList \o goalFrameList),
                solveFrameList, goalFrameList, moveFrame, goalFrameName)
    ELSE LET solveMovingList == UpTo(solveFrameList, 1, pivotFrame)
             goalMovingList == UpTo(goalFrameList, 1, pivotFrame)
             frames == solveMovingList \o goalMovingList
             dof == SumDoF(f, solveMovingList, 1)
         IN  IF dof = 0
             THEN LET s1 == Side(f, solveFrameList)
                  IN  Chain(NoErr, s1.moving, solveFrameList, moveFrame,
                            goalFrameName, TRUE, 4, <<s1>>)
             ELSE Merged(f, frames, solveMovingList, goalMovingList,
                         moveFrame, goalFrameName)

\* the degrees of freedom of the pivot frame are counted in dof
MotionChainFromPivotCountsPivot(f, pivotFrame, solveFrameList, goalFrameList, moveFrame, goalFrameName) ==
    IF pivotFrame = World
    THEN Merged(f, UniqInPlaceSlice(solveFrameList \o goalFrameList),
                solveFrameList, goalFrameList, moveFrame, goalFrameName)
    ELSE LET solveMovingList == UpTo(solveFrameList, 1, pivotFrame)
             goalMovingList == UpTo(goalFrameList, 1, pivotFrame)
             frames == solveMovingList \o goalMovingList
             dof == SumDoF(f, solveMovingList, 1) + SumDoF(f, goalMovingList, 1)
                        + DoF(f, pivotFrame)
         IN  IF dof = 0
             THEN LET s1 == Side(f, solveFrameList)
                  IN  Chain(NoErr, s1.moving, solveFrameList, moveFrame,
                            goalFrameName, TRUE, 4, <<s1>>)
             ELSE Merged(f, frames, solveMovingList, goalMovingList,
                         moveFrame, goalFrameName)

\* motionChainFromGoal once the pivot frame is found
MotionChainFromPivot(f, pivotFrame, solveFrameList, goalFrameList, moveFrame, goalFrameName) ==
    IF pivotFrame = World
    THEN Merged(f, UniqInPlaceSlice(solveFrameList \o goalFrameList),
                solveFrameList, goalFrameList, moveFrame, goalFrameName)
    ELSE LET solveMovingList == UpTo(solveFrameList, 1, pivotFrame)
             goalMovingList == UpTo(goalFrameList, 1, pivotFrame)
             frames == solveMovingList \o goalMovingList
             dof == SumDoF(f, solveMovingList, 1) + SumDoF(f, goalMovingList, 1)
         IN  IF dof = 0
             THEN LET s1 == Side(f, solveFrameList)
                  IN  Chain(NoErr, s1.moving, solveFrameList, moveFrame,
                            goalFrameName, TRUE, 4, <<s1>>)
             ELSE Merged(f, frames, solveMovingList, goalMovingList,
                         moveFrame, goalFrameName)

MotionChainFromGoal(f, moveFrame, goalFrameName) ==
    IF ~FrameExists(f, goalFrameName) THEN ChainErr(ErrFrameMissing, 1)
    ELSE IF ~FrameExists(f, moveFrame) THEN ChainErr(ErrFrameMissing, 3)
    ELSE LET goalFrameList == TracebackFrame(f, goalFrameName)
             solveFrameList == TracebackFrame(f, moveFrame)
             pivot == FindPivotFrame(solveFrameList, goalFrameList)
         IN  IF Len(solveFrameList) = 0 THEN ChainErr(ErrSolveListEmpty, 4)
             ELSE IF pivot.err # NoErr THEN ChainErr(pivot.err, 4)
             ELSE MotionChainFromPivot(f, pivot.frame, solveFrameList,
                                       goalFrameList, moveFrame, goalFrameName)

(* ---------------------- motionChainsFromPlanState ---------------------- *)

RECURSIVE BuildChainsSkipsErrors(_, _, _, _)
\* a goal whose chain fails is skipped instead of ending the call
BuildChainsSkipsErrors(f, goals, i, acc) ==
    IF i > Len(goals) THEN [err |-> NoErr, inner |-> acc.inner, fsCalls |-> acc.fsCalls]
    ELSE LET chain == MotionChainFromGoal(f, goals[i][1], goals[i][2])
             calls == acc.fsCalls + chain.fsCalls
         IN  IF chain.err # NoErr
             THEN BuildChainsSkipsErrors(f, goals, i + 1,
                                         [inner |-> acc.inner, fsCalls |-> calls])
             ELSE BuildChainsSkipsErrors(f, goals, i + 1,
                                         [inner |-> Append(acc.inner, chain), fsCalls |-> calls])

RECURSIVE BuildChains(_, _, _, _)
\* the two loops over to.poses and to.configuration: goals is the sequence of
\* <<frame, goal frame>> in the order the maps are ranged over, acc the chains
\* appended so far and the fs calls made
BuildChains(f, goals, i, acc) ==
    IF i > Len(goals) THEN [err |-> NoErr, inner |-> acc.inner, fsCalls |-> acc.fsCalls]
    ELSE LET chain == MotionChainFromGoal(f, goals[i][1], goals[i][2])
             calls == acc.fsCalls + chain.fsCalls
         IN  IF chain.err # NoErr
             THEN [err |-> chain.err, inner |-> acc.inner, fsCalls |-> calls]
             ELSE BuildChains(f, goals, i + 1,
                              [inner |-> Append(acc.inner, chain), fsCalls |-> calls])

RECURSIVE ScanPTGKeepsRooting(_, _, _, _)
\* the chain of the PTG frame is not marked world-rooted
ScanPTGKeepsRooting(f, st, ci, fi) ==
    IF ci > Len(st.inner) THEN st
    ELSE IF fi > Len(st.inner[ci].frames) THEN ScanPTGKeepsRooting(f, st, ci + 1, 1)
    ELSE LET movingFrame == st.inner[ci].frames[fi]
         IN  IF IsPTG(f, movingFrame)
             THEN IF st.useTPspace THEN [st EXCEPT !.err = ErrOnePTG]
                  ELSE IF Len(st.inner) > 1 THEN [st EXCEPT !.err = ErrMixedFrameTypes]
                  ELSE ScanPTGKeepsRooting(f, [st EXCEPT !.useTPspace = TRUE,
                                                         !.ptgFrameName = movingFrame],
                                           ci, fi + 1)
             ELSE IF DoF(f, movingFrame) > 0 /\ st.useTPspace
                  THEN [st EXCEPT !.err = ErrMixedFrameTypes]
                  ELSE ScanPTGKeepsRooting(f, st, ci, fi + 1)

RECURSIVE ScanPTGAnyChains(_, _, _, _)
\* a PTG frame is accepted whatever the number of chains
ScanPTGAnyChains(f, st, ci, fi) ==
    IF ci > Len(st.inner) THEN st
    ELSE IF fi > Len(st.inner[ci].frames) THEN ScanPTGAnyChains(f, st, ci + 1, 1)
    ELSE LET movingFrame == st.inner[ci].frames[fi]
         IN  IF IsPTG(f, movingFrame)
             THEN IF st.useTPspace THEN [st EXCEPT !.err = ErrOnePTG]
                  ELSE ScanPTGAnyChains(f, [st EXCEPT !.useTPspace = TRUE,
                                                      !.ptgFrameName = movingFrame,
                                                      !.inner[ci].worldRooted = TRUE],
                                        ci, fi + 1)
             ELSE IF DoF(f, movingFrame) > 0 /\ st.useTPspace
                  THEN [st EXCEPT !.err = ErrMixedFrameTypes]
                  ELSE ScanPTGAnyChains(f, st, ci, fi + 1)

RECURSIVE ScanPTG(_, _, _, _)
\* the loop over the frames of the chains, from frame fi of chain ci on
ScanPTG(f, st, ci, fi) ==
    IF ci > Len(st.inner) THEN st
    ELSE IF fi > Len(st.inner[ci].frames) THEN ScanPTG(f, st, ci + 1, 1)
    ELSE LET movingFrame == st.inner[ci].frames[fi]
         IN  IF IsPTG(f, movingFrame)
             THEN IF st.useTPspace THEN [st EXCEPT !.err = ErrOnePTG]
                  ELSE IF Len(st.inner) > 1 THEN [st EXCEPT !.err = ErrMixedFrameTypes]
                  ELSE ScanPTG(f, [st EXCEPT !.useTPspace = TRUE,
                                             !.ptgFrameName = movingFrame,
                                             !.inner[ci].worldRooted = TRUE],
                               ci, fi + 1)
             ELSE IF DoF(f, movingFrame) > 0 /\ st.useTPspace
                  THEN [st EXCEPT !.err = ErrMixedFrameTypes]
                  ELSE ScanPTG(f, st, ci, fi + 1)

\* what motionChainsFromPlanState returns: the error, or the motionChains
\* (inner, useTPspace, ptgFrameName); built is the chains appended by the two
\* loops, fsCalls the fs.Frame and fs.TracebackFrame calls made
Result(err, inner, useTPspace, ptgFrameName, built, fsCalls) ==
    [err |-> err, inner |-> inner, useTPspace |-> useTPspace,
     ptgFrameName |-> ptgFrameName, built |-> built, fsCalls |-> fsCalls]

\* the check of len(inner) is left out
MotionChainsFromPlanStateNoCheck(f, goals) ==
    LET b == BuildChains(f, goals, 1, [inner |-> << >>, fsCalls |-> 0])
    IN  IF b.err # NoErr
        THEN Result(b.err, << >>, FALSE, NoFrame, b.inner, b.fsCalls)
        ELSE LET st == ScanPTG(f, [err |-> NoErr, inner |-> b.inner,
                                   useTPspace |-> FALSE, ptgFrameName |-> NoFrame],
                               1, 1)
             IN  IF st.err # NoErr
                 THEN Result(st.err, << >>, FALSE, NoFrame, b.inner, b.fsCalls)
                 ELSE Result(NoErr, st.inner, st.useTPspace, st.ptgFrameName,
                             b.inner, b.fsCalls)

MotionChainsFromPlanState(f, goals) ==
    LET b == BuildChains(f, goals, 1, [inner |-> << >>, fsCalls |-> 0])
    IN  IF b.err # NoErr
        THEN Result(b.err, << >>, FALSE, NoFrame, b.inner, b.fsCalls)
        ELSE IF Len(b.inner) < 1
        THEN Result(ErrNoChain, << >>, FALSE, NoFrame, b.inner, b.fsCalls)
        ELSE LET st == ScanPTG(f, [err |-> NoErr, inner |-> b.inner,
                                   useTPspace |-> FALSE, ptgFrameName |-> NoFrame],
                               1, 1)
             IN  IF st.err # NoErr
                 THEN Result(st.err, << >>, FALSE, NoFrame, b.inner, b.fsCalls)
                 ELSE Result(NoErr, st.inner, st.useTPspace, st.ptgFrameName,
                             b.inner, b.fsCalls)

(* ------------------------------ the system ----------------------------- *)

NoCall == [op |-> "none"]

\* no resultPromise has been made
NoPromise == [worker |-> "none", made |-> FALSE]

\* a map without a key
EmptyMap == [name \in {} |-> NoCall]

\* NewModuleStatusManager: no module is tracked.  resourceGraph is the
\* graph handed to the constructor, here a graph without a module node.
NewModuleStatusManager == [modules |-> EmptyMap, resourceGraph |-> EmptyMap]

\* no manager is shared between goroutines
NoThreads == [made |-> FALSE]

\* the sequences that hold every element of S once
Perms(S) ==
    {s \in [1..Cardinality(S) -> S] : \A i, j \in 1..Cardinality(S) : s[i] = s[j] => i = j}

\* the PlanState goals over the names: poses maps a frame to the frame its
\* pose is given in, configuration is the set of frames with a configuration
PlanStates(names) ==
    {[poses |-> p, configuration |-> c] :
        p \in UNION {[pk -> names] : pk \in SUBSET names}, c \in SUBSET names}

NumGoals(to) == Cardinality(DOMAIN to.poses) + Cardinality(to.configuration)

\* the goals in the order the two maps are ranged over
GoalOrder(to, po, co) ==
    [i \in 1..Len(po) |-> <<po[i], to.poses[po[i]]>>]
        \o [i \in 1..Len(co) |-> <<co[i], co[i]>>]

Init ==
    /\ fs = NewEmptyFrameSystem
    /\ out = NoCall
    /\ rp = NoPromise
    /\ msm = NewModuleStatusManager
    /\ conc = NoThreads

\* a frame is added under a frame of the system; the system is not changed
\* while the result of a call on it is held
AddFrame(bound) ==
    /\ out = NoCall
    /\ Len(fs) < bound
    /\ \E parent \in FrameNames(fs), kind \in Kinds :
           fs' = Append(fs, [parent |-> parent, kind |-> kind])
    /\ UNCHANGED <<out, rp, msm, conc>>

\* the result of a call is dropped by its caller
Discard ==
    /\ out # NoCall
    /\ out' = NoCall
    /\ UNCHANGED <<fs, rp, msm, conc>>

CallFindPivotFrame ==
    /\ out = NoCall
    /\ \E a, b \in FrameNames(fs) :
           LET l1 == TracebackFrame(fs, a)
               l2 == TracebackFrame(fs, b)
               r == FindPivotFrame(l1, l2)
           IN  out' = [op |-> "findPivotFrame", frameList1 |-> l1, frameList2 |-> l2,
                       err |-> r.err, frame |-> r.frame]
    /\ UNCHANGED <<fs, rp, msm, conc>>

CallMotionChainFromGoal ==
    /\ out = NoCall
    /\ \E moveFrame, goalFrameName \in Names(MaxChainFrames) :
           out' = [op |-> "motionChainFromGoal", moveFrame |-> moveFrame,
                   goalFrameName |-> goalFrameName,
                   chain |-> MotionChainFromGoal(fs, moveFrame, goalFrameName)]
    /\ UNCHANGED <<fs, rp, msm, conc>>

CallMotionChainsFromPlanState ==
    /\ out = NoCall
    /\ \E to \in PlanStates(Names(MaxFrames)) :
           /\ NumGoals(to) <= MaxGoals
           /\ \E po \in Perms(DOMAIN to.poses), co \in Perms(to.configuration) :
                  out' = [op |-> "motionChainsFromPlanState", to |-> to,
                          mc |-> MotionChainsFromPlanState(fs, GoalOrder(to, po, co))]
    /\ UNCHANGED <<fs, rp, msm, conc>>

Next ==
    \/ AddFrame(MaxFrames)
    \/ CallMotionChainsFromPlanState
    \/ Discard

Spec == Init /\ [][Next]_vars

NextChain ==
    \/ AddFrame(MaxChainFrames)
    \/ CallFindPivotFrame
    \/ CallMotionChainFromGoal
    \/ Discard

SpecChain == Init /\ [][NextChain]_vars

(* ------------------------- what the claims use ------------------------- *)

Index(list, x) == CHOOSE i \in 1..Len(list) : list[i] = x

\* p lies on both lists and no frame closer to either leaf lies on both
IsLowestCommon(p, l1, l2) ==
    /\ p \in Range(l1) \cap Range(l2)
    /\ \A q \in Range(l1) \cap Range(l2) :
           Index(l1, q) >= Index(l1, p) /\ Index(l2, q) >= Index(l2, p)

Ancestors(f, name) == Range(TracebackFrame(f, name))

\* the lowest common ancestor of two frames of the system
Pivot(f, a, b) ==
    CHOOSE p \in FrameNames(f) :
        IsLowestCommon(p, TracebackFrame(f, a), TracebackFrame(f, b))

\* the frames from the leaf up to the pivot, the pivot left out
Below(f, leaf, pivot) == {x \in Ancestors(f, leaf) : x # pivot /\ pivot \in Ancestors(f, x)}

Connecting(f, a, b) == Below(f, a, Pivot(f, a, b)) \cup Below(f, b, Pivot(f, a, b))

ConnectingDoFIsZero(f, a, b) == \A x \in Connecting(f, a, b) : DoF(f, x) = 0

NoDuplicates(list) == \A i, j \in 1..Len(list) : list[i] = list[j] => i = j

\* the sub frame system rooted at the moving frame of S (frames of one
\* ancestor chain) nearest to World, empty when S has no moving frame
RootMostSubset(f, S) ==
    UNION {FrameSystemSubset(f, x) :
              x \in {y \in S : /\ DoF(f, y) # 0
                               /\ \A z \in S : DoF(f, z) # 0 => y \in Ancestors(f, z)}}

\* the same from the moving frame nearest to the leaf
LeafMostSubset(f, S) ==
    UNION {FrameSystemSubset(f, x) :
              x \in {y \in S : /\ DoF(f, y) # 0
                               /\ \A z \in S : DoF(f, z) # 0 => z \in Ancestors(f, y)}}

PivotCalled == out.op = "findPivotFrame"

\* motionChainFromGoal returned a chain
ChainBuilt == out.op = "motionChainFromGoal" /\ out.chain.err = NoErr

ChainPivot == Pivot(fs, out.moveFrame, out.goalFrameName)

AggregateCalled == out.op = "motionChainsFromPlanState"

\* motionChainsFromPlanState returned a motionChains
AggregateBuilt == AggregateCalled /\ out.mc.err = NoErr

\* the PTG frames of the frame lists of the chains
PTGFrames(f, chains) ==
    {x \in FrameNames(f) :
        \E i \in 1..Len(chains) : x \in Range(chains[i].frames) /\ IsPTG(f, x)}

\* the pivot of the chain is not World and its connecting frames have no DoF
ZeroDoFBelowPivot(f, chain) ==
    /\ Pivot(f, chain.solveFrameName, chain.goalFrameName) # World
    /\ ConnectingDoFIsZero(f, chain.solveFrameName, chain.goalFrameName)

(* ------------------------------ the claims ----------------------------- *)

\* C1: for two frames of a frame system, findPivotFrame on their ancestor
\* chains returns their lowest common ancestor: a frame on both chains such
\* that no frame closer to either leaf is on both.
C1_PivotIsLowestCommonAncestor ==
    PivotCalled =>
        /\ out.err = NoErr
        /\ IsLowestCommon(out.frame, out.frameList1, out.frameList2)

\* the pivot is neither World nor one of the two leaves
C1_Witness ==
    /\ PivotCalled
    /\ out.err = NoErr
    /\ out.frame \notin {World, out.frameList1[1], out.frameList2[1]}

\* C2: findPivotFrame(A, B) and findPivotFrame(B, A) return the same frame,
\* or both fail, also for chains of equal length.
C2_PivotSymmetric ==
    PivotCalled =>
        LET swapped == FindPivotFrame(out.frameList2, out.frameList1)
        IN  swapped.err = out.err /\ swapped.frame = out.frame

\* two different chains of equal length
C2_Witness ==
    /\ PivotCalled
    /\ out.err = NoErr
    /\ Len(out.frameList1) = Len(out.frameList2)
    /\ out.frameList1 # out.frameList2
    /\ out.frame # World

\* C3 as claimed: a chain of a constructed aggregate is world-rooted iff its
\* pivot is not World and its connecting frames have zero DoF in total.
C3_WorldRootedIffZeroDoF ==
    AggregateBuilt =>
        \A i \in 1..Len(out.mc.inner) :
            out.mc.inner[i].worldRooted <=> ZeroDoFBelowPivot(fs, out.mc.inner[i])

\* C3 amended: a chain of a constructed aggregate is world-rooted iff its
\* pivot is not World and its connecting frames have zero DoF in total, or
\* its frame list holds a PTG frame.
C3_WorldRootedIffZeroDoFOrPTG ==
    AggregateBuilt =>
        \A i \in 1..Len(out.mc.inner) :
            out.mc.inner[i].worldRooted <=>
                \/ ZeroDoFBelowPivot(fs, out.mc.inner[i])
                \/ PTGFrames(fs, <<out.mc.inner[i]>>) # {}

\* an aggregate of a world-rooted chain between two frames and a chain that
\* is not world-rooted
C3_Witness ==
    /\ AggregateBuilt
    /\ \E i, j \in 1..Len(out.mc.inner) :
           /\ out.mc.inner[i].worldRooted
           /\ out.mc.inner[i].solveFrameName # out.mc.inner[i].goalFrameName
           /\ ~out.mc.inner[j].worldRooted

\* C4 as claimed: the moving subsystem of a side is the subset rooted at the
\* first frame with nonzero DoF met from the leaf of the side's list, and is
\* empty when the list has no such frame.
C4_MovingFromLeafMostFrame ==
    ChainBuilt =>
        \A i \in 1..Len(out.chain.sides) :
            out.chain.sides[i].moving = LeafMostSubset(fs, Range(out.chain.sides[i].list))

\* C4 amended: the moving subsystem of a side is the subset rooted at the
\* first frame with nonzero DoF met from the end of the side's list nearest
\* to World, and is empty when the list has no such frame.
C4_MovingFromRootMostFrame ==
    ChainBuilt =>
        \A i \in 1..Len(out.chain.sides) :
            out.chain.sides[i].moving = RootMostSubset(fs, Range(out.chain.sides[i].list))

\* a side with two frames of nonzero DoF
C4_Witness ==
    /\ ChainBuilt
    /\ \E i \in 1..Len(out.chain.sides) :
           Cardinality({x \in Range(out.chain.sides[i].list) : DoF(fs, x) # 0}) >= 2

C6_WorldPivotSpan ==
    (ChainBuilt /\ ChainPivot = World) =>
        /\ Range(out.chain.frames) =
               Ancestors(fs, out.moveFrame) \cup Ancestors(fs, out.goalFrameName)
        /\ NoDuplicates(out.chain.frames)

\* two chains that meet in World only
C6_Witness ==
    /\ ChainBuilt
    /\ ChainPivot = World
    /\ out.moveFrame # World
    /\ out.goalFrameName # World

\* C7: with a pivot other than World and connecting frames of zero DoF the
\* frame list is the solve chain up to World and the moving subsystem is
\* that of the solve chain alone: movingFS is not called on the goal side.
C7_ZeroDoFSpan ==
    (ChainBuilt /\ ChainPivot # World
        /\ ConnectingDoFIsZero(fs, out.moveFrame, out.goalFrameName)) =>
        /\ out.chain.frames = TracebackFrame(fs, out.moveFrame)
        /\ out.chain.movingFS = RootMostSubset(fs, Ancestors(fs, out.moveFrame))
        /\ Len(out.chain.sides) = 1
        /\ out.chain.sides[1].list = TracebackFrame(fs, out.moveFrame)

\* a fixed goal frame below the solve frame, which a frame above it moves
C7_Witness ==
    /\ ChainBuilt
    /\ out.chain.worldRooted
    /\ ChainPivot = out.moveFrame
    /\ out.goalFrameName # out.moveFrame
    /\ out.chain.movingFS # {}

\* every goal of the PlanState got its chain, and a chain holds a PTG frame
PTGGoalsBuilt ==
    /\ AggregateCalled
    /\ Len(out.mc.built) = NumGoals(out.to)
    /\ PTGFrames(fs, out.mc.built) # {}

\* in the frame list an ordinary moving frame stands after the first PTG
\* frame and before the second
OrdinaryBetweenPTGs(f, frames) ==
    \E i, k, j \in 1..Len(frames) :
        /\ i < k /\ k < j
        /\ IsPTG(f, frames[i]) /\ IsPTG(f, frames[j])
        /\ \A h \in 1..(j - 1) : IsPTG(f, frames[h]) => h = i
        /\ ~IsPTG(f, frames[k]) /\ DoF(f, frames[k]) > 0

C9_TPspaceFlags ==
    AggregateBuilt =>
        /\ out.mc.useTPspace <=> PTGFrames(fs, out.mc.inner) # {}
        /\ out.mc.useTPspace =>
               /\ PTGFrames(fs, out.mc.inner) = {out.mc.ptgFrameName}
               /\ \A i \in 1..Len(out.mc.inner) :
                      out.mc.ptgFrameName \in Range(out.mc.inner[i].frames) =>
                          out.mc.inner[i].worldRooted

\* the chain of the PTG frame was not world-rooted as motionChainFromGoal
\* built it
C9_Witness ==
    /\ AggregateBuilt
    /\ out.mc.useTPspace
    /\ ~out.mc.built[1].worldRooted
    /\ out.mc.inner[1].worldRooted

\* C10: with no pose goal and no configuration goal motionChainsFromPlanState
\* fails with "must have at least one motion chain" and makes no call of
\* fs.Frame or fs.TracebackFrame.
C10_NoGoalsFails ==
    (AggregateCalled /\ NumGoals(out.to) = 0) =>
        /\ out.mc.err = ErrNoChain
        /\ out.mc.fsCalls = 0
        /\ out.mc.inner = << >>

\* the call without goals on a frame system with frames
C10_Witness ==
    /\ AggregateCalled
    /\ NumGoals(out.to) = 0
    /\ Len(fs) > 0
    /\ out.mc.err = ErrNoChain

\* the goals of the PlanState, as <<frame, goal frame>>
Goals(to) ==
    {<<k, to.poses[k]>> : k \in DOMAIN to.poses} \cup {<<k, k>> : k \in to.configuration}

\* the goals that name a frame the frame system does not hold
MissingGoals(f, to) ==
    {g \in Goals(to) : ~FrameExists(f, g[1]) \/ ~FrameExists(f, g[2])}

\* C11: motionChainFromGoal fails with the frame-missing error and returns no
\* chain when the solve frame or the goal frame is not in the frame system;
\* motionChainsFromPlanState then returns that error and no aggregate.
C11_FrameMissing ==
    (AggregateCalled /\ MissingGoals(fs, out.to) # {}) =>
        /\ \A g \in MissingGoals(fs, out.to) :
               MotionChainFromGoal(fs, g[1], g[2]) = ChainErr(ErrFrameMissing, MotionChainFromGoal(fs, g[1], g[2]).fsCalls)
        /\ out.mc.err = ErrFrameMissing
        /\ out.mc.inner = << >>
        /\ ~out.mc.useTPspace
        /\ \A i \in 1..Len(out.mc.built) :
               <<out.mc.built[i].solveFrameName, out.mc.built[i].goalFrameName>>
                   \notin MissingGoals(fs, out.to)

\* the chain of one goal was built before the goal with the missing frame
C11_Witness ==
    /\ AggregateCalled
    /\ MissingGoals(fs, out.to) # {}
    /\ Len(out.mc.built) = 1
    /\ out.mc.err = ErrFrameMissing

(* ------------------ findPivotFrame on arbitrary lists ------------------ *)

MaxListLen == 3

\* the frame lists of up to bound frames over the names 0..bound
FrameLists(bound) == UNION {[1..n -> Names(bound)] : n \in 0..bound}

CallFindPivotFrameOnLists ==
    /\ out = NoCall
    /\ \E l1, l2 \in FrameLists(MaxListLen) :
           LET r == FindPivotFrame(l1, l2)
           IN  out' = [op |-> "findPivotFrame", frameList1 |-> l1, frameList2 |-> l2,
                       err |-> r.err, frame |-> r.frame]
    /\ UNCHANGED <<fs, rp, msm, conc>>

NextPivot ==
    \/ CallFindPivotFrameOnLists
    \/ Discard

SpecPivot == Init /\ [][NextPivot]_vars

\* C12: findPivotFrame fails with "no path from solve frame to goal frame"
\* exactly when the two lists share no frame name; it returns no frame then,
\* and a frame of both lists otherwise.
C12_NoPathIffDisjoint ==
    PivotCalled =>
        LET common == Range(out.frameList1) \cap Range(out.frameList2)
        IN  /\ (out.err = ErrNoPath) <=> (common = {})
            /\ out.err \in {NoErr, ErrNoPath}
            /\ (out.err = ErrNoPath) => (out.frame = NoFrame)
            /\ (out.err = NoErr) => (out.frame \in common)

\* lists of different lengths that share a name which is not the first frame
\* of the longer list
C12_Witness ==
    /\ PivotCalled
    /\ Len(out.frameList1) > Len(out.frameList2)
    /\ Len(out.frameList2) > 0
    /\ out.err = NoErr
    /\ out.frame # out.frameList1[1]

(* ----------------------- motionChains.geometries ----------------------- *)

MaxGeomFrames == 2
MaxGeomGoals == 2
MaxGeometries == 1

\* the geometries of frame name in a map that holds count[name] of them
GeometriesOf(count, name) == [k \in 1..count[name] |-> <<name, k>>]

\* the per-frame geometry maps of the frame system, each frame of the map
\* with up to bound geometries: World has no geometry
FrameSystemGeometries(f, bound) ==
    UNION {[keys -> 0..bound] : keys \in SUBSET (FrameNames(f) \ {World})}

RECURSIVE RangeChainsNoBreak(_, _, _, _, _)
\* the range over the chains goes on after a chain that holds the frame
RangeChainsNoBreak(inner, ci, name, geoms, movingRobotGeometries) ==
    IF ci > Len(inner) THEN [moving |-> FALSE, movingRobotGeometries |-> movingRobotGeometries]
    ELSE LET rest == RangeChainsNoBreak(inner, ci + 1, name, geoms,
                         IF name \in inner[ci].movingFS
                         THEN movingRobotGeometries \o geoms
                         ELSE movingRobotGeometries)
         IN  [moving |-> rest.moving \/ name \in inner[ci].movingFS,
              movingRobotGeometries |-> rest.movingRobotGeometries]

RECURSIVE RangeChains(_, _, _, _, _)
\* the range over mC.inner for one frame name, from chain ci on
RangeChains(inner, ci, name, geoms, movingRobotGeometries) ==
    IF ci > Len(inner) THEN [moving |-> FALSE, movingRobotGeometries |-> movingRobotGeometries]
    ELSE IF name \in inner[ci].movingFS
    THEN [moving |-> TRUE, movingRobotGeometries |-> movingRobotGeometries \o geoms]
    ELSE RangeChains(inner, ci + 1, name, geoms, movingRobotGeometries)

\* a frame outside every chain is static whatever its DoF
NotMovingAlwaysStatic(f, name, geoms, acc) ==
    [movingRobotGeometries |-> acc.movingRobotGeometries,
     staticRobotGeometries |-> acc.staticRobotGeometries \o geoms]

\* the branch taken for a frame that no chain's movingFS holds
NotMoving(f, name, geoms, acc) ==
    IF DoF(f, name) > 0
    THEN [movingRobotGeometries |-> acc.movingRobotGeometries \o geoms,
          staticRobotGeometries |-> acc.staticRobotGeometries]
    ELSE [movingRobotGeometries |-> acc.movingRobotGeometries,
          staticRobotGeometries |-> acc.staticRobotGeometries \o geoms]

RECURSIVE GeometriesLoop(_, _, _, _, _, _)
\* the range over frameSystemGeometries in the order the map yields its keys
GeometriesLoop(f, inner, count, order, i, acc) ==
    IF i > Len(order) THEN acc
    ELSE LET name == order[i]
             geoms == GeometriesOf(count, name)
             r == RangeChains(inner, 1, name, geoms, acc.movingRobotGeometries)
             next == IF r.moving
                     THEN [movingRobotGeometries |-> r.movingRobotGeometries,
                           staticRobotGeometries |-> acc.staticRobotGeometries]
                     ELSE NotMoving(f, name, geoms, acc)
         IN  GeometriesLoop(f, inner, count, order, i + 1, next)

Geometries(f, inner, count, order) ==
    GeometriesLoop(f, inner, count, order, 1,
                   [movingRobotGeometries |-> << >>, staticRobotGeometries |-> << >>])

\* an aggregate is built from goals on the frame system and held; of its
\* chains, geometries reads movingFS only
NewMotionChains ==
    /\ out = NoCall
    /\ \E to \in PlanStates(FrameNames(fs)) :
           /\ NumGoals(to) <= MaxGeomGoals
           /\ \E po \in Perms(DOMAIN to.poses), co \in Perms(to.configuration) :
                  LET mC == MotionChainsFromPlanState(fs, GoalOrder(to, po, co))
                  IN  /\ mC.err = NoErr
                      /\ out' = [op |-> "motionChains",
                                 inner |-> [ci \in 1..Len(mC.inner) |->
                                               [movingFS |-> mC.inner[ci].movingFS]]]
    /\ UNCHANGED <<fs, rp, msm, conc>>

\* geometries is called on the aggregate held, with a geometry map of the
\* frame system
CallGeometries ==
    /\ out.op = "motionChains"
    /\ \E count \in FrameSystemGeometries(fs, MaxGeometries) :
           \E order \in Perms(DOMAIN count) :
               LET r == Geometries(fs, out.inner, count, order)
               IN  out' = [op |-> "geometries", inner |-> out.inner,
                           frameSystemGeometries |-> count,
                           movingRobotGeometries |-> r.movingRobotGeometries,
                           staticRobotGeometries |-> r.staticRobotGeometries]
    /\ UNCHANGED <<fs, rp, msm, conc>>

NextGeom ==
    \/ AddFrame(MaxGeomFrames)
    \/ NewMotionChains
    \/ CallGeometries
    \/ Discard

SpecGeom == Init /\ [][NextGeom]_vars

GeometriesCalled == out.op = "geometries"

\* how many times x is in the list
Occurrences(list, x) == Cardinality({i \in 1..Len(list) : list[i] = x})

\* the chains whose moving subsystem holds the frame
ChainsHolding(name) == {ci \in 1..Len(out.inner) : name \in out.inner[ci].movingFS}

\* C13: every frame of the geometry map has its geometries appended to
\* exactly one of the two outputs, once, however many chains' moving
\* subsystems hold the frame; nothing else is in the outputs.
C13_GeometryBipartition ==
    GeometriesCalled =>
        LET count == out.frameSystemGeometries
            m == out.movingRobotGeometries
            st == out.staticRobotGeometries
        IN  /\ \A name \in DOMAIN count :
                   \/ \A k \in 1..count[name] :
                          Occurrences(m, <<name, k>>) = 1 /\ Occurrences(st, <<name, k>>) = 0
                   \/ \A k \in 1..count[name] :
                          Occurrences(m, <<name, k>>) = 0 /\ Occurrences(st, <<name, k>>) = 1
            /\ \A g \in Range(m) \cup Range(st) :
                   g[1] \in DOMAIN count /\ g[2] \in 1..count[g[1]]

\* a frame with geometry is in the moving subsystem of two chains, and the
\* map also holds a frame that goes to the static output
C13_Witness ==
    /\ GeometriesCalled
    /\ \E name \in DOMAIN out.frameSystemGeometries :
           /\ out.frameSystemGeometries[name] > 0
           /\ Cardinality(ChainsHolding(name)) >= 2
    /\ out.staticRobotGeometries # << >>

\* C14: a frame's geometry is in the moving output exactly when the frame is
\* in the moving subsystem of at least one chain or has nonzero degrees of
\* freedom in the frame system, and in the static output otherwise.
C14_MovingIffInChainOrDoF ==
    GeometriesCalled =>
        \A name \in DOMAIN out.frameSystemGeometries :
            \A k \in 1..out.frameSystemGeometries[name] :
                LET moves == ChainsHolding(name) # {} \/ DoF(fs, name) > 0
                IN  /\ (<<name, k>> \in Range(out.movingRobotGeometries)) <=> moves
                    /\ (<<name, k>> \in Range(out.staticRobotGeometries)) <=> ~moves

\* one frame with geometry moves because it has degrees of freedom though no
\* chain holds it, and another frame's geometry is static
C14_Witness ==
    /\ GeometriesCalled
    /\ \E name \in DOMAIN out.frameSystemGeometries :
           /\ out.frameSystemGeometries[name] > 0
           /\ ChainsHolding(name) = {}
           /\ DoF(fs, name) > 0
           /\ <<name, 1>> \in Range(out.movingRobotGeometries)
    /\ out.staticRobotGeometries # << >>

(* --------------------- translateGoalsToWorldPosition ------------------- *)

MaxGoalFrames == 2
MaxTranslateGoals == 2

ErrTransform == "transform failed"

\* the pose goal of frame k given in frame parent: the pose is a term
NewPoseInFrame(parent, k) == [parent |-> parent, pose |-> <<"pose", k>>]

\* fs.Transform(start, pif, World): start must hold the inputs of every frame
\* with degrees of freedom between the frame of the pose and World
Transform(f, start, pif) ==
    LET path == TracebackFrame(f, pif.parent)
    IN  IF ~FrameExists(f, pif.parent) THEN [err |-> ErrFrameMissing, pif |-> pif]
        ELSE IF \E i \in 1..Len(path) : DoF(f, path[i]) > 0 /\ path[i] \notin start
        THEN [err |-> ErrTransform, pif |-> pif]
        ELSE [err |-> NoErr,
              pif |-> [parent |-> World,
                       pose |-> IF pif.parent = World THEN pif.pose
                                ELSE <<"inWorld", pif.parent, pif.pose>>]]

RECURSIVE RangeInner(_, _, _, _, _, _)
\* the range over mC.inner from chain ci on; alteredGoals is the map written
RangeInner(f, start, inner, ci, poses, alteredGoals) ==
    IF ci > Len(inner) THEN [err |-> NoErr, alteredGoals |-> alteredGoals]
    ELSE LET chain == inner[ci]
             name == chain.solveFrameName
         IN  IF name \notin DOMAIN poses
             THEN RangeInner(f, start, inner, ci + 1, poses, alteredGoals)
             ELSE IF chain.worldRooted
             THEN LET tf == Transform(f, start, poses[name])
                  IN  IF tf.err # NoErr
                      THEN [err |-> tf.err, alteredGoals |-> alteredGoals]
                      ELSE RangeInner(f, start, inner, ci + 1, poses,
                                      (name :> tf.pif) @@ alteredGoals)
             ELSE RangeInner(f, start, inner, ci + 1, poses,
                             (name :> poses[name]) @@ alteredGoals)

\* what a call leaves: the error, which object is returned ("nil", "goal" for
\* the input itself, "new" for a PlanState made by the call), the maps of the
\* object returned, and the maps of the input after the call
Translated(err, ret, retPoses, retConfiguration, goal) ==
    [err |-> err, ret |-> ret, poses |-> retPoses, configuration |-> retConfiguration,
     goalPoses |-> goal.poses, goalConfiguration |-> goal.configuration]

\* the translated poses are written into the pose map of the input
TranslateGoalsToWorldPositionInPlace(f, start, inner, goal) ==
    IF ~goal.posesNil
    THEN LET r == RangeInner(f, start, inner, 1, goal.poses, goal.poses)
             written == [goal EXCEPT !.poses = r.alteredGoals]
         IN  IF r.err # NoErr
             THEN Translated(r.err, "nil", << >>, {}, written)
             ELSE Translated(NoErr, "new", r.alteredGoals, goal.configuration, written)
    ELSE Translated(NoErr, "goal", goal.poses, goal.configuration, goal)

TranslateGoalsToWorldPosition(f, start, inner, goal) ==
    IF ~goal.posesNil
    THEN LET r == RangeInner(f, start, inner, 1, goal.poses, << >>)
         IN  IF r.err # NoErr
             THEN Translated(r.err, "nil", << >>, {}, goal)
             ELSE Translated(NoErr, "new", r.alteredGoals, goal.configuration, goal)
    ELSE Translated(NoErr, "goal", goal.poses, goal.configuration, goal)

\* the PlanState of the goals: a PlanState without pose goals has a nil or an
\* empty pose map
GoalStates(to) ==
    {[posesNil |-> n,
      poses |-> [k \in DOMAIN to.poses |-> NewPoseInFrame(to.poses[k], k)],
      configuration |-> to.configuration] :
         n \in IF DOMAIN to.poses = {} THEN BOOLEAN ELSE {FALSE}}

\* an aggregate is built from a PlanState and held with it; of its chains,
\* translateGoalsToWorldPosition reads solveFrameName and worldRooted
PlanMotionChains ==
    /\ out = NoCall
    /\ \E to \in PlanStates(FrameNames(fs)) :
           /\ NumGoals(to) <= MaxTranslateGoals
           /\ \E po \in Perms(DOMAIN to.poses), co \in Perms(to.configuration) :
                  LET mC == MotionChainsFromPlanState(fs, GoalOrder(to, po, co))
                  IN  /\ mC.err = NoErr
                      /\ \E goal \in GoalStates(to) :
                             out' = [op |-> "plan", goal |-> goal,
                                     inner |-> [ci \in 1..Len(mC.inner) |->
                                                  [solveFrameName |-> mC.inner[ci].solveFrameName,
                                                   worldRooted |-> mC.inner[ci].worldRooted]]]
    /\ UNCHANGED <<fs, rp, msm, conc>>

\* the goal held is translated, with the inputs of some frames as start
CallTranslateGoalsToWorldPosition ==
    /\ out.op = "plan"
    /\ \E start \in SUBSET (FrameNames(fs) \ {World}) :
           out' = [op |-> "translateGoalsToWorldPosition", start |-> start,
                   goal |-> out.goal, inner |-> out.inner,
                   r |-> TranslateGoalsToWorldPosition(fs, start, out.inner, out.goal)]
    /\ UNCHANGED <<fs, rp, msm, conc>>

NextTranslate ==
    \/ AddFrame(MaxGoalFrames)
    \/ PlanMotionChains
    \/ CallTranslateGoalsToWorldPosition
    \/ Discard

SpecTranslate == Init /\ [][NextTranslate]_vars

TranslateCalled == out.op = "translateGoalsToWorldPosition"

\* the chain built from the pose goal of frame k: motionChainsFromPlanState
\* appends the chains of the pose goals before those of the configuration goals
PoseChain(k) ==
    out.inner[CHOOSE ci \in 1..Cardinality(DOMAIN out.goal.poses) :
                  out.inner[ci].solveFrameName = k]

\* the transforms the claim asks for: those of the pose goals whose chain is
\* world-rooted
TransformsAsked ==
    {Transform(fs, out.start, out.goal.poses[k]) :
        k \in {n \in DOMAIN out.goal.poses : PoseChain(n).worldRooted}}

\* C15: translateGoalsToWorldPosition returns every pose goal whose chain is
\* world-rooted transformed into World at the starting configuration, every
\* pose goal of a chain that is not world-rooted and every configuration goal
\* unmodified, and fails with the transform's error if a transform fails.
C15_TranslatesWorldRootedOnly ==
    (TranslateCalled /\ ~out.goal.posesNil) =>
        /\ (out.r.err # NoErr) <=> (\E t \in TransformsAsked : t.err # NoErr)
        /\ (out.r.err # NoErr) => (\E t \in TransformsAsked : t.err = out.r.err)
        /\ (out.r.err = NoErr) =>
               /\ DOMAIN out.r.poses = DOMAIN out.goal.poses
               /\ \A k \in DOMAIN out.goal.poses :
                      out.r.poses[k] = IF PoseChain(k).worldRooted
                                       THEN Transform(fs, out.start, out.goal.poses[k]).pif
                                       ELSE out.goal.poses[k]
               /\ out.r.configuration = out.goal.configuration

\* the same holds of every call whose goal has no frame with both a pose goal
\* and a configuration goal
TranslatesWorldRootedOnlyWithoutSharedFrame ==
    (TranslateCalled /\ DOMAIN out.goal.poses \cap out.goal.configuration = {}) =>
        C15_TranslatesWorldRootedOnly

\* the maps of the input are after the call what they were before it
InputNotMutated ==
    /\ out.r.goalPoses = out.goal.poses
    /\ out.r.goalConfiguration = out.goal.configuration

\* C16 (as stated): translateGoalsToWorldPosition never mutates its input and
\* returns a new object distinct from it, for every input including one with
\* no pose goals.
C16_NeverMutatesAlwaysNew ==
    TranslateCalled =>
        /\ InputNotMutated
        /\ (out.r.err = NoErr) => (out.r.ret = "new")

\* C16 (amended): translateGoalsToWorldPosition never mutates its input; on
\* success it returns a new object when the pose map of the input is not nil
\* and the input itself when it is nil; on failure it returns no object.
C16_NeverMutatesNewUnlessNilPoses ==
    TranslateCalled =>
        /\ InputNotMutated
        /\ (out.r.err = NoErr /\ ~out.goal.posesNil) => (out.r.ret = "new")
        /\ (out.r.err = NoErr /\ out.goal.posesNil) =>
               /\ out.r.ret = "goal"
               /\ out.r.poses = out.goal.poses
               /\ out.r.configuration = out.goal.configuration
        /\ (out.r.err # NoErr) => (out.r.ret = "nil")

\* a pose goal was translated: the object returned holds another pose than
\* the input does
C16_Witness ==
    /\ TranslateCalled
    /\ out.r.ret = "new"
    /\ \E k \in DOMAIN out.goal.poses : out.r.poses[k] # out.goal.poses[k]

(* ------------------------ linearizedFrameSystem ------------------------ *)

MaxLfsFrames == 2
MaxDoF == 2

ErrMissingFromInputMap == "frame missing from input map"
ErrNotEnoughValues == "not enough values in float slice"

\* the instances newLinearizedFrameSystem can build: the frames of a frame
\* system, each with its number of degrees of freedom, in the order
\* fs.FrameNames() happened to give them
LinearizedFrameSystems(maxFrames, maxDoF) ==
    UNION {{[i \in 1..n |-> [name |-> order[i], dof |-> dof[order[i]]]] :
               order \in Perms(1..n), dof \in [1..n -> 0..maxDoF]} : n \in 0..maxFrames}

\* the input maps: any frames, each with any number of values; the value in
\* slot j of the entry of frame name is the term <<name, j>>
FrameSystemInputs(maxFrames, maxDoF) ==
    UNION {{[name \in keys |-> [j \in 1..len[name] |-> <<name, j>>]] :
               len \in [keys -> 0..maxDoF]} : keys \in SUBSET (1..maxFrames)}

\* the float slices: the value at index i is the term <<"v", i>>
FloatSlices(maxLen) == {[i \in 1..n |-> <<"v", i>>] : n \in 0..maxLen}

RECURSIVE MapToSliceSkipsMissing(_, _, _, _)
\* a frame without an entry is passed over
MapToSliceSkipsMissing(frames, inputs, fi, floatSlice) ==
    IF fi > Len(frames) THEN [err |-> NoErr, floatSlice |-> floatSlice]
    ELSE IF frames[fi].dof = 0 \/ frames[fi].name \notin DOMAIN inputs
    THEN MapToSliceSkipsMissing(frames, inputs, fi + 1, floatSlice)
    ELSE MapToSliceSkipsMissing(frames, inputs, fi + 1, floatSlice \o inputs[frames[fi].name])

RECURSIVE MapToSliceLoop(_, _, _, _)
\* the range over lfs.frames of mapToSlice, from frame fi on
MapToSliceLoop(frames, inputs, fi, floatSlice) ==
    IF fi > Len(frames) THEN [err |-> NoErr, floatSlice |-> floatSlice]
    ELSE IF frames[fi].dof = 0
    THEN MapToSliceLoop(frames, inputs, fi + 1, floatSlice)
    ELSE IF frames[fi].name \notin DOMAIN inputs
    THEN [err |-> ErrMissingFromInputMap, floatSlice |-> << >>]
    ELSE MapToSliceLoop(frames, inputs, fi + 1, floatSlice \o inputs[frames[fi].name])

MapToSlice(frames, inputs) == MapToSliceLoop(frames, inputs, 1, << >>)

RECURSIVE FrameInputsStopsShort(_, _, _, _, _)
\* a slice that runs out ends the filling of the frame without an error
FrameInputsStopsShort(floatSlice, i, j, dof, frameInputs) ==
    IF j > dof \/ i > Len(floatSlice)
    THEN [err |-> NoErr, i |-> i, frameInputs |-> frameInputs]
    ELSE FrameInputsStopsShort(floatSlice, i + 1, j + 1, dof, Append(frameInputs, floatSlice[i]))

RECURSIVE FrameInputs(_, _, _, _, _)
\* the range over frame.DoF() of sliceToMap: slot j of frameInputs is filled
\* from index i of the slice
FrameInputs(floatSlice, i, j, dof, frameInputs) ==
    IF j > dof THEN [err |-> NoErr, i |-> i, frameInputs |-> frameInputs]
    ELSE IF i > Len(floatSlice) THEN [err |-> ErrNotEnoughValues, i |-> i, frameInputs |-> << >>]
    ELSE FrameInputs(floatSlice, i + 1, j + 1, dof, Append(frameInputs, floatSlice[i]))

RECURSIVE SliceToMapNoAdvance(_, _, _, _, _)
\* the index into the slice is not advanced: every frame is filled from i
SliceToMapNoAdvance(frames, floatSlice, fi, i, inputs) ==
    IF fi > Len(frames) THEN [err |-> NoErr, inputs |-> inputs]
    ELSE IF frames[fi].dof = 0
    THEN SliceToMapNoAdvance(frames, floatSlice, fi + 1, i, inputs)
    ELSE LET r == FrameInputs(floatSlice, i, 1, frames[fi].dof, << >>)
         IN  IF r.err # NoErr THEN [err |-> r.err, inputs |-> << >>]
             ELSE SliceToMapNoAdvance(frames, floatSlice, fi + 1, i,
                                      (frames[fi].name :> r.frameInputs) @@ inputs)

RECURSIVE SliceToMapLoop(_, _, _, _, _)
\* the range over lfs.frames of sliceToMap, from frame fi and index i on
SliceToMapLoop(frames, floatSlice, fi, i, inputs) ==
    IF fi > Len(frames) THEN [err |-> NoErr, inputs |-> inputs]
    ELSE IF frames[fi].dof = 0
    THEN SliceToMapLoop(frames, floatSlice, fi + 1, i, inputs)
    ELSE LET r == FrameInputs(floatSlice, i, 1, frames[fi].dof, << >>)
         IN  IF r.err # NoErr THEN [err |-> r.err, inputs |-> << >>]
             ELSE SliceToMapLoop(frames, floatSlice, fi + 1, r.i,
                                 (frames[fi].name :> r.frameInputs) @@ inputs)

SliceToMap(frames, floatSlice) == SliceToMapLoop(frames, floatSlice, 1, 1, << >>)

NewLinearizedFrameSystem ==
    /\ out = NoCall
    /\ \E frames \in LinearizedFrameSystems(MaxLfsFrames, MaxDoF) :
           out' = [op |-> "newLinearizedFrameSystem", frames |-> frames]
    /\ UNCHANGED <<fs, rp, msm, conc>>

CallMapToSlice ==
    /\ out.op = "newLinearizedFrameSystem"
    /\ \E inputs \in FrameSystemInputs(MaxLfsFrames, MaxDoF) :
           LET r == MapToSlice(out.frames, inputs)
           IN  out' = [op |-> "mapToSlice", frames |-> out.frames, inputs |-> inputs,
                       err |-> r.err, floatSlice |-> r.floatSlice]
    /\ UNCHANGED <<fs, rp, msm, conc>>

CallSliceToMap ==
    /\ out.op = "newLinearizedFrameSystem"
    /\ \E floatSlice \in FloatSlices(MaxLfsFrames * MaxDoF + 1) :
           LET r == SliceToMap(out.frames, floatSlice)
           IN  out' = [op |-> "sliceToMap", frames |-> out.frames, floatSlice |-> floatSlice,
                       err |-> r.err, inputs |-> r.inputs]
    /\ UNCHANGED <<fs, rp, msm, conc>>

NextLFS ==
    \/ NewLinearizedFrameSystem
    \/ CallMapToSlice
    \/ CallSliceToMap
    \/ Discard

SpecLFS == Init /\ [][NextLFS]_vars

MapToSliceCalled == out.op = "mapToSlice"

SliceToMapCalled == out.op = "sliceToMap"

\* the frames of the instance with nonzero degrees of freedom
Required(frames) == {frames[i].name : i \in {j \in 1..Len(frames) : frames[j].dof > 0}}

\* the values a map holds for a frame: none when it has no entry
Entry(inputs, name) == IF name \in DOMAIN inputs THEN inputs[name] ELSE << >>

\* C17 (as stated): for any configuration mapping x in which every required
\* frame is present, sliceToMap(mapToSlice(x)) succeeds and equals x
\* value-wise per frame.
C17_RoundTripWhenPresent ==
    (MapToSliceCalled /\ Required(out.frames) \subseteq DOMAIN out.inputs) =>
        LET back == SliceToMap(out.frames, out.floatSlice)
        IN  /\ out.err = NoErr
            /\ back.err = NoErr
            /\ \A name \in 1..MaxLfsFrames :
                   Entry(back.inputs, name) = Entry(out.inputs, name)

\* every required frame has an entry of exactly as many values as it has
\* degrees of freedom
WellSized(frames, inputs) ==
    \A i \in 1..Len(frames) :
        frames[i].dof > 0 =>
            /\ frames[i].name \in DOMAIN inputs
            /\ Len(inputs[frames[i].name]) = frames[i].dof

\* C17 (amended): for any configuration mapping x in which every required
\* frame has an entry of exactly its number of degrees of freedom,
\* sliceToMap(mapToSlice(x)) succeeds, holds the required frames and no
\* other, and gives each the values x gives it.
C17_RoundTripWhenWellSized ==
    (MapToSliceCalled /\ WellSized(out.frames, out.inputs)) =>
        LET back == SliceToMap(out.frames, out.floatSlice)
        IN  /\ out.err = NoErr
            /\ back.err = NoErr
            /\ DOMAIN back.inputs = Required(out.frames)
            /\ \A name \in Required(out.frames) : back.inputs[name] = out.inputs[name]

\* two required frames, one of them with two degrees of freedom, and the
\* frame named last comes first in the fixed order
C17_Witness ==
    /\ MapToSliceCalled
    /\ WellSized(out.frames, out.inputs)
    /\ Cardinality(Required(out.frames)) = 2
    /\ out.frames[1].name = 2
    /\ \E i \in 1..Len(out.frames) : out.frames[i].dof = 2

\* the values of the required frames of the instance, from frame fi on, in the
\* fixed order
RECURSIVE Concatenated(_, _, _)
Concatenated(frames, inputs, fi) ==
    IF fi > Len(frames) THEN << >>
    ELSE (IF frames[fi].dof > 0 THEN inputs[frames[fi].name] ELSE << >>)
             \o Concatenated(frames, inputs, fi + 1)

\* C18: mapToSlice concatenates, in the fixed frame order, the values of each
\* frame with nonzero degrees of freedom, gives no slot to a frame with zero
\* degrees of freedom, and fails with the missing-frame error, returning no
\* vector, exactly when a frame with nonzero degrees of freedom has no entry.
C18_MapToSliceConcatenates ==
    MapToSliceCalled =>
        LET missing == Required(out.frames) \ DOMAIN out.inputs
        IN  /\ (out.err = ErrMissingFromInputMap) <=> (missing # {})
            /\ out.err \in {NoErr, ErrMissingFromInputMap}
            /\ (out.err # NoErr) => (out.floatSlice = << >>)
            /\ (out.err = NoErr) =>
                   /\ out.floatSlice = Concatenated(out.frames, out.inputs, 1)
                   /\ \A i \in 1..Len(out.floatSlice) :
                          out.floatSlice[i][1] \in Required(out.frames)

\* the frame that comes first has no degrees of freedom but has values in the
\* map; the vector holds the two values of the other frame only
C18_Witness ==
    /\ MapToSliceCalled
    /\ out.err = NoErr
    /\ Len(out.frames) = 2
    /\ out.frames[1].dof = 0
    /\ out.frames[1].name \in DOMAIN out.inputs
    /\ out.inputs[out.frames[1].name] # << >>
    /\ Len(out.floatSlice) = 2

\* the number of degrees of freedom of the frames before frame fi
RECURSIVE DoFBefore(_, _)
DoFBefore(frames, fi) ==
    IF fi <= 1 THEN 0 ELSE frames[fi - 1].dof + DoFBefore(frames, fi - 1)

\* C19: sliceToMap gives each frame with nonzero degrees of freedom, in the
\* fixed order, as many consecutive scalars as it has degrees of freedom; it
\* fails with the insufficient-values error exactly when the vector is
\* shorter than the total number of degrees of freedom, and scalars beyond
\* that total are ignored.
C19_SliceToMapConsumesInOrder ==
    SliceToMapCalled =>
        LET total == DoFBefore(out.frames, Len(out.frames) + 1)
        IN  /\ (out.err = ErrNotEnoughValues) <=> (Len(out.floatSlice) < total)
            /\ out.err \in {NoErr, ErrNotEnoughValues}
            /\ (out.err # NoErr) => (out.inputs = << >>)
            /\ (out.err = NoErr) =>
                   /\ DOMAIN out.inputs = Required(out.frames)
                   /\ \A fi \in 1..Len(out.frames) :
                          out.frames[fi].dof > 0 =>
                              out.inputs[out.frames[fi].name] =
                                  SubSeq(out.floatSlice, DoFBefore(out.frames, fi) + 1,
                                         DoFBefore(out.frames, fi) + out.frames[fi].dof)

\* two frames with degrees of freedom are filled and a scalar is left over
C19_Witness ==
    /\ SliceToMapCalled
    /\ out.err = NoErr
    /\ Cardinality(Required(out.frames)) = 2
    /\ \E i \in 1..Len(out.frames) : out.frames[i].dof = 2
    /\ Len(out.floatSlice) > DoFBefore(out.frames, Len(out.frames) + 1)

(* ---------------------------- resultPromise ----------------------------- *)

MaxSteps == 3
MaxCalls == 3

ErrSearch == "search failed"

ErrCancelled == "context canceled"

\* the node sequences of up to bound nodes; << >> stands for a nil slice and
\* for an empty one, which result() does not tell apart
Steps(bound) == UNION {[1..n -> {"n1", "n2"}] : n \in 0..bound}

\* the rrtSolution values a search can deliver
Solutions(bound) ==
    {[steps |-> st, err |-> e] : st \in Steps(bound), e \in {NoErr, ErrSearch}}

\* what a call of result() returned
Returned(steps, err) == [steps |-> steps, err |-> err]

\* no write of the worker
NoWrite == [steps |-> << >>, err |-> "none"]

\* a promise is made: from a precomputed node sequence, with or without a
\* search worker for its slot, or with nil steps and a slot that a search
\* worker will write once
NewResultPromise ==
    /\ rp = NoPromise
    /\ \E precomputed \in BOOLEAN, steps \in Steps(MaxSteps), worker \in {"none", "running"} :
           /\ ~precomputed => (steps = << >> /\ worker = "running")
           /\ rp' = [made |-> TRUE, precomputed |-> precomputed, steps |-> steps,
                      future |-> << >>, worker |-> worker, written |-> NoWrite,
                      cancelled |-> FALSE, pc |-> "idle", returned |-> << >>]
    /\ UNCHANGED <<fs, out, msm, conc>>

\* the caller's operation context is cancelled
CancelContext ==
    /\ rp.made
    /\ ~rp.cancelled
    /\ rp' = [rp EXCEPT !.cancelled = TRUE]
    /\ UNCHANGED <<fs, out, msm, conc>>

\* the worker writes its outcome into the slot, once
WorkerWrite ==
    /\ rp.worker = "running"
    /\ \E planReturn \in Solutions(MaxSteps) :
           rp' = [rp EXCEPT !.future = <<planReturn>>, !.worker = "done",
                            !.written = planReturn]
    /\ UNCHANGED <<fs, out, msm, conc>>

\* result() goes to the receive whatever r.steps holds
CallResultAlwaysReceives ==
    /\ rp.made
    /\ rp.pc = "idle"
    /\ Len(rp.returned) < MaxCalls
    /\ rp' = [rp EXCEPT !.pc = "receive"]
    /\ UNCHANGED <<fs, out, msm, conc>>

\* result() returns r.steps whatever it holds
CallResultNeverReceives ==
    /\ rp.made
    /\ rp.pc = "idle"
    /\ Len(rp.returned) < MaxCalls
    /\ rp' = [rp EXCEPT !.returned = Append(@, Returned(rp.steps, NoErr))]
    /\ UNCHANGED <<fs, out, msm, conc>>

\* result() up to its return of r.steps or to the receive from r.future
CallResult ==
    /\ rp.made
    /\ rp.pc = "idle"
    /\ Len(rp.returned) < MaxCalls
    /\ rp' = IF Len(rp.steps) > 0
             THEN [rp EXCEPT !.returned = Append(@, Returned(rp.steps, NoErr))]
             ELSE [rp EXCEPT !.pc = "receive"]
    /\ UNCHANGED <<fs, out, msm, conc>>

\* result() returns the steps and the error it received side by side
ReceiveReturnsBoth ==
    /\ rp.made
    /\ rp.pc = "receive"
    /\ rp.future # << >>
    /\ LET planReturn == Head(rp.future)
       IN  rp' = [rp EXCEPT !.future = << >>,
                            !.pc = "idle",
                            !.returned = Append(@, Returned(planReturn.steps, planReturn.err))]
    /\ UNCHANGED <<fs, out, msm, conc>>

\* result() from the receive on: planReturn := <-r.future
Receive ==
    /\ rp.made
    /\ rp.pc = "receive"
    /\ rp.future # << >>
    /\ LET planReturn == Head(rp.future)
       IN  rp' = [rp EXCEPT !.future = << >>,
                            !.pc = "idle",
                            !.returned = Append(@, IF planReturn.err # NoErr
                                                   THEN Returned(<< >>, planReturn.err)
                                                   ELSE Returned(planReturn.steps, NoErr))]
    /\ UNCHANGED <<fs, out, msm, conc>>

NextPromise ==
    \/ NewResultPromise
    \/ CancelContext
    \/ WorkerWrite
    \/ CallResult
    \/ Receive

SpecPromise == Init /\ [][NextPromise]_vars

\* the goroutines of the caller and of the worker are scheduled: a receive
\* that can be made is made, and the worker delivers its outcome
SpecPromiseFair == SpecPromise /\ WF_vars(Receive) /\ WF_vars(WorkerWrite)

\* a call of result() waits on the slot after the worker's one write was
\* taken from it: nothing will ever be received
Blocked ==
    /\ rp.made
    /\ rp.pc = "receive"
    /\ rp.future = << >>
    /\ rp.worker = "done"

\* C20: on a promise resolved through the asynchronous slot by the worker's
\* single write, every call of result() after the first returning call
\* returns the same outcome and does not block.
C20_ResultIdempotent ==
    (rp.made /\ rp.worker = "done" /\ Len(rp.returned) >= 1) =>
        /\ \A i \in 1..Len(rp.returned) : rp.returned[i] = rp.returned[1]
        /\ ~Blocked

\* no call of result() has touched the slot: none is at the receive, every
\* call returned the steps the promise was made from, and what the worker
\* wrote is still in the slot
ReturnsPrecomputed ==
    /\ rp.pc = "idle"
    /\ \A i \in 1..Len(rp.returned) : rp.returned[i] = Returned(rp.steps, NoErr)
    /\ (rp.worker = "done") => (rp.future = <<rp.written>>)

\* C21 (as stated): a resultPromise made from a precomputed node sequence
\* returns that sequence with no error from result() at once, without
\* receiving from the slot, for every precomputed node sequence and even
\* when the slot has no producer.
C21_PrecomputedReturnsAtOnce ==
    (rp.made /\ rp.precomputed) => ReturnsPrecomputed

\* C21 (amended): a resultPromise made from a precomputed node sequence that
\* is not empty returns that sequence with no error from result() at once,
\* without receiving from the slot, even when the slot has no producer.
C21_NonEmptyPrecomputedReturnsAtOnce ==
    (rp.made /\ rp.precomputed /\ Len(rp.steps) > 0) => ReturnsPrecomputed

\* result() returned twice on a promise made from steps, whose slot has no
\* producer
C21_Witness ==
    /\ rp.made
    /\ rp.precomputed
    /\ Len(rp.steps) > 1
    /\ rp.worker = "none"
    /\ Len(rp.returned) = 2

\* the last call of result() returned the cancellation error
ReturnedCancelled ==
    /\ rp.made
    /\ rp.pc = "idle"
    /\ Len(rp.returned) >= 1
    /\ rp.returned[Len(rp.returned)] = Returned(<< >>, ErrCancelled)

\* a call of result() waits on the slot, the worker has not written, and the
\* caller's context is cancelled
CancelledWhileBlocked ==
    /\ rp.made
    /\ rp.pc = "receive"
    /\ rp.worker # "done"
    /\ rp.cancelled

\* C22: a call of result() blocked on an unresolved promise unblocks when the
\* caller's operation context is cancelled before the worker writes, and
\* returns a cancellation error instead of waiting on.
C22_CancelUnblocks == CancelledWhileBlocked ~> ReturnedCancelled

\* what result() makes of a write: the error alone, or the steps alone
Whole(written) ==
    IF written.err # NoErr THEN Returned(<< >>, written.err)
    ELSE Returned(written.steps, NoErr)

\* on a promise without steps no call returns before the worker has written,
\* and the call that returns gives the worker's write as a whole
ReturnsTheWrite ==
    (rp.made /\ ~rp.precomputed) =>
        /\ (rp.worker = "running") => (rp.returned = << >>)
        /\ \A i \in 1..Len(rp.returned) : rp.returned[i] = Whole(rp.written)

\* a call of result() is at the receive and the worker's write is in the slot
WriteLanded ==
    /\ rp.made
    /\ ~rp.precomputed
    /\ rp.pc = "receive"
    /\ rp.future # << >>

\* C23: on a promise without a precomputed result, a call of result() stays
\* blocked until the worker's single write is in the slot and then, under
\* fair scheduling, returns that write as a whole: (nil, err) when the error
\* written is not nil, (steps written, nil) otherwise.
C23_ReturnsWriteAsWhole ==
    /\ []ReturnsTheWrite
    /\ WriteLanded ~> (rp.made /\ rp.pc = "idle" /\ rp.returned = <<Whole(rp.written)>>)

\* the call blocked before the worker wrote; the write held steps and an
\* error, and the call returned the error alone
C23_Witness ==
    /\ rp.made
    /\ ~rp.precomputed
    /\ rp.written.err = ErrSearch
    /\ rp.written.steps # << >>
    /\ rp.returned = <<Returned(<< >>, ErrSearch)>>

(* -------------------------- CalculateStepCount -------------------------- *)

MaxPoint == 4
MaxTurns == 2

\* a float64: a rational num/den with den > 0, NaN, +Inf, a positive value too
\* small for any nonzero quotient by it to fit an int ("tiny"), or a finite
\* value beyond the range of int ("huge").  The quotients of the rationals
\* below are far from any rounding of the division.
Finite(num, den) == [kind |-> "finite", num |-> num, den |-> den]

NaN == [kind |-> "nan"]

PosInf == [kind |-> "inf"]

Tiny == [kind |-> "tiny"]

Huge == [kind |-> "huge"]

StepSizes ==
    {Finite(num, den) : num \in {-10, -3, -1, 0, 1, 3, 10}, den \in {1, 2}}
        \cup {NaN, PosInf, Tiny}

\* a pose: a point at 25 mm * point along one axis, turned by theta quarters
\* of pi about one axis
Poses(maxPoint, maxTurns) == [point : 0..maxPoint, theta : 0..maxTurns]

AbsInt(n) == IF n < 0 THEN -n ELSE n

\* seedPos.Point().Distance(goalPos.Point()), in mm
Distance(seedPos, goalPos) == 25 * AbsInt(seedPos.point - goalPos.point)

\* OrientationBetween(...).AxisAngles().Theta, in quarters of pi
OrientationBetween(seedPos, goalPos) == goalPos.theta - seedPos.theta

\* utils.RadToDeg of an angle given in quarters of pi
RadToDeg(theta) == 45 * theta

\* x / stepSize for an integer x
Quotient(x, stepSize) ==
    CASE stepSize.kind = "finite" -> Finite(x * stepSize.den, stepSize.num)
      [] stepSize.kind = "nan" -> NaN
      [] stepSize.kind = "inf" -> Finite(0, 1)
      [] stepSize.kind = "tiny" -> IF x = 0 THEN Finite(0, 1) ELSE Huge

\* math.Abs: the rational is given a positive denominator
Abs(x) == IF x.kind = "finite" THEN Finite(AbsInt(x.num), AbsInt(x.den)) ELSE x

\* math.Max of two values that are not negative
Max(x, y) ==
    CASE x.kind = "nan" \/ y.kind = "nan" -> NaN
      [] x.kind = "huge" \/ y.kind = "huge" -> Huge
      [] OTHER -> IF x.num * y.den >= y.num * x.den THEN x ELSE y

\* an int: one of the values 0, minInt, maxInt plus a small offset
IntValue(n) == [base |-> "0", off |-> n]

MinInt == [base |-> "minInt", off |-> 0]

MaxInt == [base |-> "maxInt", off |-> 0]

\* what a build may give for int(x) when x is NaN or out of the range of int
ImplementationDependent == {MinInt, MaxInt, IntValue(0)}

\* i + 1 in the width of int
PlusOne(i) == IF i = MaxInt THEN MinInt ELSE [i EXCEPT !.off = @ + 1]

\* int(x) for x that is not negative; conv is the value of the build for a
\* float that int cannot represent
ToInt(x, conv) == IF x.kind = "finite" THEN IntValue(x.num \div x.den) ELSE conv

CalculateStepCount(seedPos, goalPos, stepSize, conv) ==
    LET size == IF stepSize.kind = "finite" /\ stepSize.num = 0 THEN Finite(1, 1) ELSE stepSize
        mmDist == Distance(seedPos, goalPos)
        rDist == OrientationBetween(seedPos, goalPos)
        nSteps == Max(Abs(Quotient(mmDist, size)), Abs(Quotient(RadToDeg(rDist), size)))
    IN  PlusOne(ToInt(nSteps, conv))

CallCalculateStepCount ==
    /\ out = NoCall
    /\ \E seedPos, goalPos \in Poses(MaxPoint, MaxTurns), stepSize \in StepSizes :
           \E conv \in ImplementationDependent :
               out' = [op |-> "CalculateStepCount", seedPos |-> seedPos, goalPos |-> goalPos,
                       stepSize |-> stepSize,
                       nSteps |-> CalculateStepCount(seedPos, goalPos, stepSize, conv)]
    /\ UNCHANGED <<fs, rp, msm, conc>>

NextSteps ==
    \/ CallCalculateStepCount
    \/ Discard

SpecSteps == Init /\ [][NextSteps]_vars

StepCountCalled == out.op = "CalculateStepCount"

\* the int is 1 or more
AtLeastOne(i) == (i.base = "0" /\ i.off >= 1) \/ i = MaxInt

\* the larger of the linear distance in mm and the size of the rotation in
\* degrees
LargerOffset ==
    LET mm == 25 * AbsInt(out.seedPos.point - out.goalPos.point)
        deg == 45 * AbsInt(out.seedPos.theta - out.goalPos.theta)
    IN  IF mm >= deg THEN mm ELSE deg

\* C24: CalculateStepCount returns floor(max(|linear distance / stepSize|,
\* |rotation in degrees / stepSize|)) + 1 with stepSize 0 taken as 1, so the
\* result is always at least 1: it is 1 for identical poses with any stepSize
\* and 11 for a linear offset of 100 mm without rotation and stepSize 10.
C24_StepCount ==
    StepCountCalled =>
        /\ AtLeastOne(out.nSteps)
        /\ (out.seedPos = out.goalPos) => (out.nSteps = IntValue(1))
        /\ (out.stepSize.kind = "finite") =>
               LET num == IF out.stepSize.num = 0 THEN 1 ELSE AbsInt(out.stepSize.num)
                   den == IF out.stepSize.num = 0 THEN 1 ELSE out.stepSize.den
               IN  out.nSteps = IntValue(((LargerOffset * den) \div num) + 1)
        /\ (out.stepSize.kind = "inf") => (out.nSteps = IntValue(1))
        /\ (LargerOffset = 100 /\ out.seedPos.theta = out.goalPos.theta
               /\ out.stepSize = Finite(10, 1)) => (out.nSteps = IntValue(11))

\* the same holds of every call whose stepSize is not NaN and whose quotients
\* fit an int
StepCountWhenRepresentable ==
    (StepCountCalled /\ out.stepSize.kind \in {"finite", "inf"}) => C24_StepCount

\* a call with the offset of 100 mm, no rotation and stepSize 10
StepCountOfExample ==
    /\ StepCountCalled
    /\ LargerOffset = 100
    /\ out.seedPos.theta = out.goalPos.theta
    /\ out.stepSize = Finite(10, 1)
    /\ out.nSteps = IntValue(11)

(* ---------------- ModuleResource (package modmanager) ------------------- *)

\* latest time stamp of a status
MaxTime == 1

\* PackageState and ModuleState are string types: next to the named
\* constants a status can hold any other string, here the zero value
PackageStateNotNeeded == "not_needed"
PackageStatePending == "pending"
PackageStateDownloading == "downloading"
PackageStateReady == "ready"
PackageStateFailed == "failed"
PackageStates ==
    {PackageStateNotNeeded, PackageStatePending, PackageStateDownloading,
     PackageStateReady, PackageStateFailed, ""}

ModuleStatePending == "pending"
ModuleStateFirstRun == "first_run"
ModuleStateStarting == "starting"
ModuleStateRunning == "running"
ModuleStateStopping == "stopping"
ModuleStateFailed == "failed"
ModuleStates ==
    {ModuleStatePending, ModuleStateFirstRun, ModuleStateStarting,
     ModuleStateRunning, ModuleStateStopping, ModuleStateFailed, ""}

NodeStateConfiguring == "configuring"
NodeStateReady == "ready"
NodeStateRemoving == "removing"
NodeStateUnhealthy == "unhealthy"

ErrFail == "fail"
ErrCrash == "crash"

\* PackageLifecycleStatus; the Progress pointer is copied with the struct and
\* read by no method, it is left out
PackageLifecycleStatuses(maxTime) ==
    [State : PackageStates, LastUpdated : 0..maxTime, Error : {NoErr, ErrFail}]

\* ModuleLifecycleStatus
ModuleLifecycleStatuses(maxTime) ==
    [State : ModuleStates, LastUpdated : 0..maxTime, Error : {NoErr, ErrCrash}]

ModuleTypeLocal == "local"
ModuleTypeRegistry == "registry"

\* config.Module: Name, Type, whether the executable is a tarball, and
\* LocalVersion
Modules(names) ==
    [Name : names, Type : {ModuleTypeLocal, ModuleTypeRegistry}, Tarball : BOOLEAN,
     LocalVersion : {""}]

\* a local module whose executable is a tarball gets a synthetic package
NeedsSyntheticPackage(cfg) == cfg.Type = ModuleTypeLocal /\ cfg.Tarball

\* resource.NewName(ModuleAPI, name)
ModuleAPI == "rdk-internal:service:module"
NewName(api, name) == [API |-> api, Name |-> name]

\* every new module waits for a package
NewModuleResourceAlwaysPending(cfg, now) ==
    [Named |-> NewName(ModuleAPI, cfg.Name),
     cfg |-> cfg,
     packageStatus |-> [State |-> PackageStatePending, LastUpdated |-> now, Error |-> NoErr],
     moduleStatus |-> [State |-> ModuleStatePending, LastUpdated |-> now, Error |-> NoErr]]

NewModuleResource(cfg, now) ==
    [Named |-> NewName(ModuleAPI, cfg.Name),
     cfg |-> cfg,
     packageStatus |->
         [State |-> IF cfg.Type = ModuleTypeRegistry \/ NeedsSyntheticPackage(cfg)
                    THEN PackageStatePending ELSE PackageStateNotNeeded,
          LastUpdated |-> now, Error |-> NoErr],
     moduleStatus |-> [State |-> ModuleStatePending, LastUpdated |-> now, Error |-> NoErr]]

\* the ModuleResource methods of the same names
ModuleResourceUpdatePackageStatus(mr, packageStatus) == [mr EXCEPT !.packageStatus = packageStatus]
ModuleResourceUpdateModuleStatus(mr, moduleStatus) == [mr EXCEPT !.moduleStatus = moduleStatus]
GetPackageStatus(mr) == mr.packageStatus
GetModuleStatus(mr) == mr.moduleStatus

NodeStatus(mr, state, lastUpdated, err) ==
    [Name |-> mr.Named, State |-> state, LastUpdated |-> lastUpdated,
     Revision |-> mr.cfg.LocalVersion, Error |-> err]

\* the cases of the switch of nodeStatus below the two failures
NodeStatusUnlessFailed(mr, now) ==
    IF mr.packageStatus.State = PackageStateDownloading
    THEN NodeStatus(mr, NodeStateConfiguring, mr.packageStatus.LastUpdated, NoErr)
    ELSE IF mr.moduleStatus.State = ModuleStateFirstRun
    THEN NodeStatus(mr, NodeStateConfiguring, mr.moduleStatus.LastUpdated, NoErr)
    ELSE IF mr.moduleStatus.State = ModuleStateStarting
    THEN NodeStatus(mr, NodeStateConfiguring, mr.moduleStatus.LastUpdated, NoErr)
    ELSE IF mr.moduleStatus.State = ModuleStateRunning
    THEN NodeStatus(mr, NodeStateReady, mr.moduleStatus.LastUpdated, NoErr)
    ELSE IF mr.moduleStatus.State = ModuleStateStopping
    THEN NodeStatus(mr, NodeStateRemoving, mr.moduleStatus.LastUpdated, NoErr)
    ELSE NodeStatus(mr, NodeStateConfiguring, now, NoErr)

\* a failed module is looked at before a failed package
NodeStatusModuleFirst(mr, now) ==
    IF mr.moduleStatus.State = ModuleStateFailed
    THEN NodeStatus(mr, NodeStateUnhealthy, mr.moduleStatus.LastUpdated, mr.moduleStatus.Error)
    ELSE IF mr.packageStatus.State = PackageStateFailed
    THEN NodeStatus(mr, NodeStateUnhealthy, mr.packageStatus.LastUpdated, mr.packageStatus.Error)
    ELSE NodeStatusUnlessFailed(mr, now)

\* nodeStatus: the switch takes the first case that holds
nodeStatus(mr, now) ==
    IF mr.packageStatus.State = PackageStateFailed
    THEN NodeStatus(mr, NodeStateUnhealthy, mr.packageStatus.LastUpdated, mr.packageStatus.Error)
    ELSE IF mr.moduleStatus.State = ModuleStateFailed
    THEN NodeStatus(mr, NodeStateUnhealthy, mr.moduleStatus.LastUpdated, mr.moduleStatus.Error)
    ELSE NodeStatusUnlessFailed(mr, now)

\* nodeStatus of a module resource after one update of each status
CallNodeStatus ==
    /\ out = NoCall
    /\ \E cfg \in Modules({"test-module"}), packageStatus \in PackageLifecycleStatuses(MaxTime),
          moduleStatus \in ModuleLifecycleStatuses(MaxTime) :
           LET mr == ModuleResourceUpdateModuleStatus(
                         ModuleResourceUpdatePackageStatus(NewModuleResource(cfg, 0), packageStatus),
                         moduleStatus)
           IN  out' = [op |-> "nodeStatus", mr |-> mr, status |-> nodeStatus(mr, MaxTime)]
    /\ UNCHANGED <<fs, rp, msm, conc>>

\* NewModuleResource, called at any time
CallNewModuleResource ==
    /\ out = NoCall
    /\ \E cfg \in Modules({"test-module"}), now \in 0..MaxTime :
           out' = [op |-> "NewModuleResource", cfg |-> cfg, mr |-> NewModuleResource(cfg, now)]
    /\ UNCHANGED <<fs, rp, msm, conc>>

NextNodeStatus ==
    \/ CallNodeStatus
    \/ CallNewModuleResource
    \/ Discard

SpecNodeStatus == Init /\ [][NextNodeStatus]_vars

NodeStatusCalled == out.op = "nodeStatus"

\* the node state the module state alone stands for
OfModuleState(state) ==
    CASE state \in {ModuleStateFirstRun, ModuleStateStarting} -> NodeStateConfiguring
      [] state = ModuleStateRunning -> NodeStateReady
      [] state = ModuleStateStopping -> NodeStateRemoving
      [] OTHER -> NodeStateConfiguring

\* C28: for every combination of package state and module state nodeStatus
\* follows the priority package failure > module failure > package
\* downloading > module states: Unhealthy with the package error when the
\* package state is Failed; else Unhealthy with the module error when the
\* module state is Failed; else Configuring when the package is Downloading;
\* else Configuring for module FirstRun or Starting, Ready for Running,
\* Removing for Stopping, and Configuring otherwise.
C28_NodeStatusPriority ==
    NodeStatusCalled =>
        LET package == GetPackageStatus(out.mr)
            module == GetModuleStatus(out.mr)
        IN  /\ (package.State = PackageStateFailed) =>
                   (out.status.State = NodeStateUnhealthy /\ out.status.Error = package.Error)
            /\ (package.State # PackageStateFailed /\ module.State = ModuleStateFailed) =>
                   (out.status.State = NodeStateUnhealthy /\ out.status.Error = module.Error)
            /\ (package.State = PackageStateDownloading /\ module.State # ModuleStateFailed) =>
                   out.status.State = NodeStateConfiguring
            /\ (package.State \notin {PackageStateFailed, PackageStateDownloading}
                    /\ module.State # ModuleStateFailed) =>
                   out.status.State = OfModuleState(module.State)

\* package and module have both failed, each with an error of its own, and
\* the status carries the error of the package
C28_Witness ==
    /\ NodeStatusCalled
    /\ GetPackageStatus(out.mr) = [State |-> PackageStateFailed, LastUpdated |-> 0, Error |-> ErrFail]
    /\ GetModuleStatus(out.mr) = [State |-> ModuleStateFailed, LastUpdated |-> 1, Error |-> ErrCrash]
    /\ out.status.State = NodeStateUnhealthy
    /\ out.status.Error = ErrFail

(* ------------- ModuleStatusManager (package modmanager) ----------------- *)

\* msm.modules maps the names of the tracked modules to their resources;
\* msm.resourceGraph maps resource names to graph nodes.  A node holds a
\* pointer to a module resource: current says whether that is the resource
\* tracked under the node's name ("module") or one that is tracked no more
\* ("removed").

ModuleNames == {"module1", "module2"}

\* the statuses the callers report
PackageStatusInputs ==
    {[State |-> PackageStateDownloading, LastUpdated |-> 0, Error |-> NoErr],
     [State |-> PackageStateReady, LastUpdated |-> 0, Error |-> NoErr],
     [State |-> PackageStateFailed, LastUpdated |-> 0, Error |-> ErrFail]}

ModuleStatusInputs ==
    {[State |-> ModuleStateStarting, LastUpdated |-> 0, Error |-> NoErr],
     [State |-> ModuleStateRunning, LastUpdated |-> 0, Error |-> NoErr],
     [State |-> ModuleStateFailed, LastUpdated |-> 0, Error |-> ErrCrash]}

ModuleInputs == {cfg \in Modules(ModuleNames) : ~cfg.Tarball}

Put(map, key, value) ==
    [k \in DOMAIN map \cup {key} |-> IF k = key THEN value ELSE map[k]]

Delete(map, key) == [k \in DOMAIN map \ {key} |-> map[k]]

ErrNotFound(moduleName) == "module resource " \o moduleName \o " not found"
ErrGraph == "graph takes no node"
ErrAddNode(moduleName, err) ==
    "failed to add module resource " \o moduleName \o " to graph: " \o err

\* resource.GraphNode: a new node holds the resource it was made with
NewConfiguredGraphNode == [current |-> "module", marked |-> FALSE]

\* GraphNode.SwapResource puts the resource into the node; whether it takes
\* back a mark for removal is the graph's business: either
SwapResource(node) == {[current |-> "module", marked |-> marked] : marked \in {node.marked, FALSE}}

MarkForRemoval(node) == [node EXCEPT !.marked = TRUE]

\* the results of ResourceGraphInterface.AddNode: the graph with the node,
\* or an error and the graph as it was
AddNode(graph, name, node) ==
    {[graph |-> Put(graph, name, node), err |-> NoErr],
     [graph |-> graph, err |-> ErrGraph]}

Outcome(m, err) == [msm |-> m, err |-> err]

\* the module is tracked but no node is added to the graph
CreateModuleResourceNoNode(m, cfg) ==
    IF cfg.Name \in DOMAIN m.modules
    THEN {Outcome([m EXCEPT !.modules[cfg.Name].cfg = cfg], NoErr)}
    ELSE {Outcome([m EXCEPT !.modules = Put(m.modules, cfg.Name, NewModuleResource(cfg, 0))], NoErr)}

\* the module stays tracked when AddNode fails
CreateModuleResourceKeepsOnFailure(m, cfg) ==
    LET moduleName == NewName(ModuleAPI, cfg.Name)
        moduleResource == NewModuleResource(cfg, 0)
    IN  IF cfg.Name \in DOMAIN m.modules
        THEN {Outcome([m EXCEPT !.modules[cfg.Name].cfg = cfg], NoErr)}
        ELSE IF moduleName \in DOMAIN m.resourceGraph
        THEN {Outcome([modules |-> Put(m.modules, cfg.Name, moduleResource),
                       resourceGraph |-> [m.resourceGraph EXCEPT ![moduleName] = node]], NoErr) :
                  node \in SwapResource(m.resourceGraph[moduleName])}
        ELSE {Outcome([modules |-> Put(m.modules, cfg.Name, moduleResource),
                       resourceGraph |-> added.graph],
                      IF added.err = NoErr THEN NoErr ELSE ErrAddNode(cfg.Name, added.err)) :
                  added \in AddNode(m.resourceGraph, moduleName, NewConfiguredGraphNode)}

CreateModuleResource(m, cfg) ==
    LET moduleName == NewName(ModuleAPI, cfg.Name)
        moduleResource == NewModuleResource(cfg, 0)
    IN  IF cfg.Name \in DOMAIN m.modules
        THEN {Outcome([m EXCEPT !.modules[cfg.Name].cfg = cfg], NoErr)}
        ELSE IF moduleName \in DOMAIN m.resourceGraph
        THEN {Outcome([modules |-> Put(m.modules, cfg.Name, moduleResource),
                       resourceGraph |-> [m.resourceGraph EXCEPT ![moduleName] = node]], NoErr) :
                  node \in SwapResource(m.resourceGraph[moduleName])}
        ELSE {IF added.err = NoErr
              THEN Outcome([modules |-> Put(m.modules, cfg.Name, moduleResource),
                            resourceGraph |-> added.graph], NoErr)
              ELSE Outcome([modules |-> Delete(Put(m.modules, cfg.Name, moduleResource), cfg.Name),
                            resourceGraph |-> added.graph], ErrAddNode(cfg.Name, added.err)) :
                  added \in AddNode(m.resourceGraph, moduleName, NewConfiguredGraphNode)}

updateResourceInGraph(m, moduleName) ==
    LET resourceName == NewName(ModuleAPI, moduleName)
    IN  IF resourceName \in DOMAIN m.resourceGraph
        THEN {Outcome([m EXCEPT !.resourceGraph[resourceName] = node], NoErr) :
                  node \in SwapResource(m.resourceGraph[resourceName])}
        ELSE {Outcome(m, NoErr)}

UpdatePackageStatus(m, moduleName, packageStatus) ==
    IF moduleName \notin DOMAIN m.modules
    THEN {Outcome(m, ErrNotFound(moduleName))}
    ELSE updateResourceInGraph(
             [m EXCEPT !.modules[moduleName] = ModuleResourceUpdatePackageStatus(@, packageStatus)],
             moduleName)

\* a name that is not tracked is passed over in silence
UpdateModuleStatusUnchecked(m, moduleName, moduleStatus) ==
    IF moduleName \notin DOMAIN m.modules
    THEN {Outcome(m, NoErr)}
    ELSE updateResourceInGraph(
             [m EXCEPT !.modules[moduleName] = ModuleResourceUpdateModuleStatus(@, moduleStatus)],
             moduleName)

UpdateModuleStatus(m, moduleName, moduleStatus) ==
    IF moduleName \notin DOMAIN m.modules
    THEN {Outcome(m, ErrNotFound(moduleName))}
    ELSE updateResourceInGraph(
             [m EXCEPT !.modules[moduleName] = ModuleResourceUpdateModuleStatus(@, moduleStatus)],
             moduleName)

\* NoOpStatusReporter.ReportPackageStatus in the manager's place
NoOpReportPackageStatus(m, moduleName, packageStatus) == {Outcome(m, NoErr)}

ReportPackageStatus(m, moduleName, packageStatus) ==
    UpdatePackageStatus(m, moduleName, packageStatus)

GetModuleResource(m, moduleName) ==
    IF moduleName \in DOMAIN m.modules
    THEN [moduleResource |-> m.modules[moduleName], exists |-> TRUE]
    ELSE [moduleResource |-> NoCall, exists |-> FALSE]

ListModuleResources(m) == [name \in DOMAIN m.modules |-> m.modules[name]]

\* the module is dropped from tracking and its node is left as it is
RemoveModuleResourceNoMark(m, moduleName) ==
    [m EXCEPT !.modules = Delete(m.modules, moduleName)]

RemoveModuleResource(m, moduleName) ==
    LET resourceName == NewName(ModuleAPI, moduleName)
    IN  [modules |-> Delete(m.modules, moduleName),
         resourceGraph |->
             IF resourceName \in DOMAIN m.resourceGraph
             THEN [m.resourceGraph EXCEPT
                       ![resourceName] = [MarkForRemoval(@) EXCEPT !.current = "removed"]]
             ELSE m.resourceGraph]

CallCreateModuleResource ==
    /\ out = NoCall
    /\ \E cfg \in ModuleInputs :
           \E outcome \in CreateModuleResource(msm, cfg) :
               /\ msm' = outcome.msm
               /\ out' = [op |-> "CreateModuleResource", cfg |-> cfg, before |-> msm,
                          err |-> outcome.err]
    /\ UNCHANGED <<fs, rp, conc>>

CallUpdatePackageStatus ==
    /\ out = NoCall
    /\ \E moduleName \in ModuleNames, packageStatus \in PackageStatusInputs :
           \E outcome \in UpdatePackageStatus(msm, moduleName, packageStatus) :
               /\ msm' = outcome.msm
               /\ out' = [op |-> "UpdatePackageStatus", moduleName |-> moduleName,
                          status |-> packageStatus, before |-> msm, err |-> outcome.err]
    /\ UNCHANGED <<fs, rp, conc>>

CallReportPackageStatus ==
    /\ out = NoCall
    /\ \E moduleName \in ModuleNames, packageStatus \in PackageStatusInputs :
           \E outcome \in ReportPackageStatus(msm, moduleName, packageStatus) :
               /\ msm' = outcome.msm
               /\ out' = [op |-> "ReportPackageStatus", moduleName |-> moduleName,
                          status |-> packageStatus, before |-> msm, err |-> outcome.err]
    /\ UNCHANGED <<fs, rp, conc>>

CallUpdateModuleStatus ==
    /\ out = NoCall
    /\ \E moduleName \in ModuleNames, moduleStatus \in ModuleStatusInputs :
           \E outcome \in UpdateModuleStatus(msm, moduleName, moduleStatus) :
               /\ msm' = outcome.msm
               /\ out' = [op |-> "UpdateModuleStatus", moduleName |-> moduleName,
                          status |-> moduleStatus, before |-> msm, err |-> outcome.err]
    /\ UNCHANGED <<fs, rp, conc>>

CallRemoveModuleResource ==
    /\ out = NoCall
    /\ \E moduleName \in ModuleNames :
           /\ msm' = RemoveModuleResource(msm, moduleName)
           /\ out' = [op |-> "RemoveModuleResource", moduleName |-> moduleName, before |-> msm]
    /\ UNCHANGED <<fs, rp, conc>>

NextModules ==
    \/ CallCreateModuleResource
    \/ CallUpdatePackageStatus
    \/ CallReportPackageStatus
    \/ CallUpdateModuleStatus
    \/ CallRemoveModuleResource
    \/ Discard

SpecModules == Init /\ [][NextModules]_vars

Called(op) == out.op = op

\* C25: after CreateModuleResource(cfg) returns nil, GetModuleResource(cfg.Name)
\* reports the module as existing with that config name, and the resource
\* graph contains a node under the resource name (ModuleAPI, cfg.Name).
C25_CreatedIsTrackedAndInGraph ==
    (Called("CreateModuleResource") /\ out.err = NoErr) =>
        LET got == GetModuleResource(msm, out.cfg.Name)
        IN  /\ got.exists
            /\ got.moduleResource.cfg.Name = out.cfg.Name
            /\ NewName(ModuleAPI, out.cfg.Name) \in DOMAIN msm.resourceGraph

\* a module is created anew under a name whose node of an earlier module is
\* still in the graph, marked for removal
C25_Witness ==
    /\ Called("CreateModuleResource")
    /\ out.err = NoErr
    /\ out.cfg.Name \notin DOMAIN out.before.modules
    /\ NewName(ModuleAPI, out.cfg.Name) \in DOMAIN out.before.resourceGraph
    /\ out.before.resourceGraph[NewName(ModuleAPI, out.cfg.Name)].marked
    /\ GetModuleResource(msm, out.cfg.Name).exists

\* C26: UpdatePackageStatus, UpdateModuleStatus and ReportPackageStatus called
\* with a module name that is not tracked return the error "module resource
\* <name> not found" and leave the tracked modules, every module's statuses
\* and the resource graph unchanged.
C26_UntrackedNameNotFound ==
    \A op \in {"UpdatePackageStatus", "UpdateModuleStatus", "ReportPackageStatus"} :
        (Called(op) /\ out.moduleName \notin DOMAIN out.before.modules) =>
            /\ out.err = "module resource " \o out.moduleName \o " not found"
            /\ ListModuleResources(msm) = ListModuleResources(out.before)
            /\ msm.resourceGraph = out.before.resourceGraph

\* the module status of a removed module, whose node is still in the graph,
\* is updated while another module is tracked
C26_Witness ==
    /\ Called("UpdateModuleStatus")
    /\ out.moduleName \notin DOMAIN out.before.modules
    /\ NewName(ModuleAPI, out.moduleName) \in DOMAIN out.before.resourceGraph
    /\ DOMAIN out.before.modules # {}
    /\ out.err = "module resource module1 not found"
    /\ msm = out.before

\* C27: after RemoveModuleResource(name) returns, GetModuleResource(name)
\* reports the module as not existing, the module's node in the resource
\* graph (if any) is marked for removal, and all other tracked modules are
\* unchanged.
C27_RemovedIsUntrackedAndMarked ==
    Called("RemoveModuleResource") =>
        LET resourceName == NewName(ModuleAPI, out.moduleName)
        IN  /\ ~GetModuleResource(msm, out.moduleName).exists
            /\ (resourceName \in DOMAIN msm.resourceGraph) => msm.resourceGraph[resourceName].marked
            /\ DOMAIN msm.resourceGraph = DOMAIN out.before.resourceGraph
            /\ \A other \in ModuleNames \ {out.moduleName} :
                   GetModuleResource(msm, other) = GetModuleResource(out.before, other)

\* a tracked module with a node is removed while the other module is tracked,
\* its package ready
C27_Witness ==
    /\ Called("RemoveModuleResource")
    /\ out.moduleName \in DOMAIN out.before.modules
    /\ ~out.before.resourceGraph[NewName(ModuleAPI, out.moduleName)].marked
    /\ msm.resourceGraph[NewName(ModuleAPI, out.moduleName)].marked
    /\ \E other \in DOMAIN msm.modules :
           GetPackageStatus(msm.modules[other]).State = PackageStateReady

\* C30: after a successful UpdatePackageStatus(name, s) or
\* ReportPackageStatus(name, s) the tracked module's GetPackageStatus returns s
\* and its module status is unchanged; after a successful
\* UpdateModuleStatus(name, s) GetModuleStatus returns s and its package status
\* is unchanged; ReportPackageStatus has exactly the effect and result of
\* UpdatePackageStatus.
C30_UpdateFrames ==
    /\ \A op \in {"UpdatePackageStatus", "ReportPackageStatus"} :
           (Called(op) /\ out.err = NoErr) =>
               /\ GetModuleResource(msm, out.moduleName).exists
               /\ GetPackageStatus(msm.modules[out.moduleName]) = out.status
               /\ GetModuleStatus(msm.modules[out.moduleName])
                      = GetModuleStatus(out.before.modules[out.moduleName])
    /\ (Called("UpdateModuleStatus") /\ out.err = NoErr) =>
           /\ GetModuleResource(msm, out.moduleName).exists
           /\ GetModuleStatus(msm.modules[out.moduleName]) = out.status
           /\ GetPackageStatus(msm.modules[out.moduleName])
                  = GetPackageStatus(out.before.modules[out.moduleName])
    /\ Called("ReportPackageStatus") =>
           /\ Outcome(msm, out.err) \in UpdatePackageStatus(out.before, out.moduleName, out.status)
           /\ ReportPackageStatus(out.before, out.moduleName, out.status)
                  = UpdatePackageStatus(out.before, out.moduleName, out.status)

\* a failed package is reported for a module that is running
C30_Witness ==
    /\ Called("ReportPackageStatus")
    /\ out.err = NoErr
    /\ out.status.State = PackageStateFailed
    /\ GetPackageStatus(msm.modules[out.moduleName]) = out.status
    /\ GetModuleStatus(out.before.modules[out.moduleName]).State = ModuleStateRunning
    /\ GetModuleStatus(msm.modules[out.moduleName]).State = ModuleStateRunning

\* C31: a newly created ModuleResource has module state Pending, and package
\* state Pending when the module type is registry or the module needs a
\* synthetic package, and package state NotNeeded otherwise (local
\* non-tarball module).
C31_NewResourceStates ==
    Called("NewModuleResource") =>
        /\ GetModuleStatus(out.mr).State = ModuleStatePending
        /\ GetPackageStatus(out.mr).State =
               IF out.cfg.Type = ModuleTypeRegistry \/ (out.cfg.Type = ModuleTypeLocal /\ out.cfg.Tarball)
               THEN PackageStatePending
               ELSE PackageStateNotNeeded

\* the resource of a local module that is no tarball needs no package
C31_Witness ==
    /\ Called("NewModuleResource")
    /\ out.cfg.Type = ModuleTypeLocal
    /\ ~out.cfg.Tarball
    /\ GetPackageStatus(out.mr).State = PackageStateNotNeeded
    /\ GetModuleStatus(out.mr).State = ModuleStatePending

\* the frame list holds a PTG frame and an ordinary frame with nonzero degrees
\* of freedom
PTGWithOrdinary(f, frames) ==
    \E i, j \in 1..Len(frames) :
        /\ IsPTG(f, frames[i])
        /\ ~IsPTG(f, frames[j]) /\ DoF(f, frames[j]) > 0

\* C32: if a motion chain has a PTG frame, that frame must be the only frame
\* of the chain with nonzero degrees of freedom: motionChainsFromPlanState
\* fails with errMixedFrameTypes whenever the frame list of a chain holds a PTG
\* frame together with an ordinary frame with nonzero degrees of freedom,
\* whatever the position of the two frames in the list.
C32_PTGAloneInChain ==
    (AggregateCalled /\ Len(out.mc.built) = NumGoals(out.to)) =>
        \A i \in 1..Len(out.mc.built) :
            PTGWithOrdinary(fs, out.mc.built[i].frames) => out.mc.err = ErrMixedFrameTypes

\* the one chain holds one PTG frame, an ordinary moving frame stands before
\* it in the frame list, and the aggregate is returned without error
OrdinaryBeforePTGAccepted ==
    /\ AggregateBuilt
    /\ Len(out.mc.inner) = 1
    /\ Cardinality(PTGFrames(fs, out.mc.inner)) = 1
    /\ \E i, j \in 1..Len(out.mc.inner[1].frames) :
           /\ j < i
           /\ IsPTG(fs, out.mc.inner[1].frames[i])
           /\ ~IsPTG(fs, out.mc.inner[1].frames[j]) /\ DoF(fs, out.mc.inner[1].frames[j]) > 0

\* under the same conditions an ordinary moving frame after the PTG frame
\* is refused
OrdinaryAfterPTGRefused ==
    (AggregateCalled /\ Len(out.mc.built) = 1
         /\ Cardinality(PTGFrames(fs, out.mc.built)) = 1) =>
        ((\E i, j \in 1..Len(out.mc.built[1].frames) :
              /\ i < j
              /\ IsPTG(fs, out.mc.built[1].frames[i])
              /\ ~IsPTG(fs, out.mc.built[1].frames[j]) /\ DoF(fs, out.mc.built[1].frames[j]) > 0)
          <=> out.mc.err = ErrMixedFrameTypes)

\* a call of result() returns without a receive only from steps that are not
\* empty, and goes to the receive only with empty steps
NonBlockingPathIffSteps ==
    (rp.made /\ rp.pc = "idle") =>
        /\ (rp'.pc = "idle" /\ Len(rp'.returned) > Len(rp.returned)) => Len(rp.steps) > 0
        /\ (rp'.pc = "receive") => Len(rp.steps) = 0

\* a call of result() is at the receive, the channel is empty and no worker
\* is left to write to it
WaitsWithoutWriter ==
    /\ rp.made
    /\ rp.pc = "receive"
    /\ rp.future = << >>
    /\ rp.worker # "running"

\* C33: result() takes the non-blocking path exactly when the steps of the
\* promise are not empty; for a promise whose steps are nil or of length zero
\* it receives from the future channel, so it blocks forever when no value is
\* ever written to that channel.
C33_BlocksWithoutSteps ==
    /\ [][NonBlockingPathIffSteps]_vars
    /\ [](WaitsWithoutWriter => []WaitsWithoutWriter)

\* result() is at the receive of a promise made from empty steps, whose
\* channel has no producer
C33_Witness ==
    /\ WaitsWithoutWriter
    /\ rp.precomputed
    /\ rp.steps = << >>
    /\ rp.worker = "none"
    /\ rp.returned = << >>

\* CreateModuleResource was called with a name that was not tracked and had
\* no node, so that AddNode was called
AddNodeCalled ==
    /\ Called("CreateModuleResource")
    /\ out.cfg.Name \notin DOMAIN out.before.modules
    /\ NewName(ModuleAPI, out.cfg.Name) \notin DOMAIN out.before.resourceGraph

\* C35: after any sequence of CreateModuleResource, RemoveModuleResource and
\* status updates, CreateModuleResource calls in which AddNode fails included,
\* every module name tracked by the manager has a node in the resource graph
\* that holds the module's tracked resource; a CreateModuleResource whose
\* AddNode fails returns an error and leaves the module untracked.
C35_TrackedHaveNodes ==
    /\ \A name \in DOMAIN msm.modules :
           /\ NewName(ModuleAPI, name) \in DOMAIN msm.resourceGraph
           /\ msm.resourceGraph[NewName(ModuleAPI, name)].current = "module"
    /\ AddNodeCalled =>
           \/ /\ out.err = NoErr
              /\ out.cfg.Name \in DOMAIN msm.modules
           \/ /\ out.err = "failed to add module resource " \o out.cfg.Name
                               \o " to graph: " \o ErrGraph
              /\ out.cfg.Name \notin DOMAIN msm.modules
              /\ msm = out.before

\* AddNode failed for one module while the other is tracked with its node
C35_Witness ==
    /\ AddNodeCalled
    /\ out.err # NoErr
    /\ out.cfg.Name \notin DOMAIN msm.modules
    /\ DOMAIN msm.modules # {}
    /\ DOMAIN msm.resourceGraph # {}

\* motionChainFromGoal was called as the second loop of
\* motionChainsFromPlanState calls it: with the frame of a configuration goal
\* as solve frame and as goal frame
ConfigurationGoalCalled ==
    /\ out.op = "motionChainFromGoal"
    /\ out.moveFrame = out.goalFrameName
    /\ out.moveFrame # World
    /\ FrameExists(fs, out.moveFrame)

\* C38: for a configuration goal (solve frame equal to goal frame, and not
\* World) the pivot is that frame itself, so the chain is always world-rooted,
\* its frame list is the frame's full ancestor chain up to World, and its
\* moving subsystem is derived from that chain alone, regardless of how many
\* degrees of freedom the frame has.
C38_ConfigurationGoalWorldRooted ==
    ConfigurationGoalCalled =>
        LET list == TracebackFrame(fs, out.moveFrame)
        IN  /\ FindPivotFrame(list, list) = [err |-> NoErr, frame |-> out.moveFrame]
            /\ out.chain.err = NoErr
            /\ out.chain.worldRooted
            /\ out.chain.frames = list
            /\ list[Len(list)] = World
            /\ out.chain.movingFS = RootMostSubset(fs, Range(list))
            /\ Len(out.chain.sides) = 1
            /\ out.chain.sides[1].list = list

\* the configuration goal of a moving frame below another moving frame: the
\* chain is world-rooted and moves both
C38_Witness ==
    /\ ConfigurationGoalCalled
    /\ DoF(fs, out.moveFrame) > 0
    /\ Parent(fs, out.moveFrame) # World
    /\ DoF(fs, Parent(fs, out.moveFrame)) > 0
    /\ out.chain.worldRooted
    /\ Parent(fs, out.moveFrame) \in out.chain.movingFS

(* --------- ModuleStatusManager shared between goroutines ---------------- *)

\* conc is a manager that goroutines call at the same time.  Its module
\* resources live in a heap, a pointer is the index of a resource there and 0
\* is nil; modules maps the module name to the pointer tracked (0: no key);
\* node is the graph node of the name; mu is msm.mu and rmu[id] is the mu of
\* resource id; th holds what each goroutine is doing.

ThreadOrder == <<"t1", "t2">>

Threads == {ThreadOrder[i] : i \in 1..Len(ThreadOrder)}

\* resources that can be alive at a time
MaxResources == 3

SharedName == "module1"

NoThread == "none"

\* sync.RWMutex: the holder of the write lock, the holders of read locks, and
\* the goroutines blocked in Lock
Unlocked == [writer |-> NoThread, readers |-> {}, pending |-> {}]

\* Lock returns when nobody holds the lock
CanLock(mu) == mu.writer = NoThread /\ mu.readers = {}

\* RLock returns when no writer holds the lock and none is blocked in Lock
CanRLock(mu) == mu.writer = NoThread /\ mu.pending = {}

LockCalled(mu, t) == [mu EXCEPT !.pending = @ \cup {t}]
LockTaken(mu, t) == [mu EXCEPT !.writer = t, !.pending = @ \ {t}]
Unlock(mu, t) == [mu EXCEPT !.writer = NoThread]
RLockTaken(mu, t) == [mu EXCEPT !.readers = @ \cup {t}]

\* the read lock is kept
RUnlockForgotten(mu, t) == mu

RUnlock(mu, t) == [mu EXCEPT !.readers = @ \ {t}]

Idle ==
    [op |-> "none", pc |-> "idle", res |-> 0, arg |-> NoCall, err |-> NoErr,
     swapped |-> FALSE, tracked |-> FALSE]

NoNode == [exists |-> FALSE, current |-> 0, marked |-> FALSE]

SharedManager ==
    [made |-> TRUE,
     modules |-> [name \in {SharedName} |-> 0],
     node |-> [name \in {SharedName} |-> NoNode],
     heap |-> [id \in 1..MaxResources |-> NoCall],
     mu |-> Unlocked,
     rmu |-> [id \in 1..MaxResources |-> Unlocked],
     th |-> [t \in Threads |-> Idle]]

\* the resources some pointer leads to
Referenced(c) ==
    ({c.modules[SharedName], c.node[SharedName].current} \cup {c.th[t].res : t \in Threads}) \ {0}

\* the pointers to resources, in a fixed order
Pointers(c) ==
    <<c.modules[SharedName], c.node[SharedName].current>>
        \o [i \in 1..Len(ThreadOrder) |-> c.th[ThreadOrder[i]].res]

\* what the garbage collector leaves: a resource no pointer leads to is gone.
\* The address of a resource carries no meaning, so the resources left are
\* kept in the order in which Pointers(c) leads to them.
Collect(c) ==
    LET ptrs == Pointers(c)
        first(i) == ptrs[i] # 0 /\ \A j \in 1..(i - 1) : ptrs[j] # ptrs[i]
        firsts == SelectSeq([i \in 1..Len(ptrs) |-> i], first)
        order == [k \in 1..Len(firsts) |-> ptrs[firsts[k]]]
        place(id) == IF id = 0 THEN 0 ELSE CHOOSE k \in 1..Len(order) : order[k] = id
    IN  [c EXCEPT !.heap = [k \in 1..MaxResources |->
                               IF k <= Len(order) THEN c.heap[order[k]] ELSE NoCall],
                  !.rmu = [k \in 1..MaxResources |->
                              IF k <= Len(order) THEN c.rmu[order[k]] ELSE Unlocked],
                  !.modules[SharedName] = place(@),
                  !.node[SharedName].current = place(@),
                  !.th = [t \in Threads |-> [c.th[t] EXCEPT !.res = place(@)]]]

\* the place of a new resource in the heap
Fresh(c) ==
    CHOOSE id \in 1..MaxResources :
        /\ id \notin Referenced(c)
        /\ \A other \in 1..(id - 1) : other \in Referenced(c)

ShareManager ==
    /\ conc = NoThreads
    /\ conc' = SharedManager
    /\ UNCHANGED <<fs, out, rp, msm>>

\* a goroutine calls a method that starts with msm.mu.Lock()
StartLocked(t, op, arg) ==
    /\ conc.made
    /\ conc.th[t].pc = "idle"
    /\ conc' = [conc EXCEPT !.th[t] = [Idle EXCEPT !.op = op, !.pc = "lock", !.arg = arg],
                             !.mu = LockCalled(@, t)]
    /\ UNCHANGED <<fs, out, rp, msm>>

\* a goroutine calls a method that starts with msm.mu.RLock()
StartRLocked(t, op, arg) ==
    /\ conc.made
    /\ conc.th[t].pc = "idle"
    /\ conc' = [conc EXCEPT !.th[t] = [Idle EXCEPT !.op = op, !.pc = "rlock", !.arg = arg]]
    /\ UNCHANGED <<fs, out, rp, msm>>

StartCreateModuleResource(t) ==
    \E cfg \in {c \in ModuleInputs : c.Name = SharedName /\ c.Type = ModuleTypeRegistry} :
        StartLocked(t, "CreateModuleResource", cfg)

StartRemoveModuleResource(t) == StartLocked(t, "RemoveModuleResource", NoCall)

StartUpdatePackageStatus(t) ==
    StartRLocked(t, "UpdatePackageStatus",
                 [State |-> PackageStateDownloading, LastUpdated |-> 0, Error |-> NoErr])

StartUpdateModuleStatus(t) ==
    StartRLocked(t, "UpdateModuleStatus",
                 [State |-> ModuleStateStarting, LastUpdated |-> 0, Error |-> NoErr])

\* GetModuleResource, and DetailedStatus of the resource it returns
StartGetModuleResource(t) == StartRLocked(t, "GetModuleResource", NoCall)

StartListModuleResources(t) == StartRLocked(t, "ListModuleResources", NoCall)

\* msm.mu.Lock() returns
AcquireLock(t) ==
    /\ conc.made
    /\ conc.th[t].pc = "lock"
    /\ CanLock(conc.mu)
    /\ conc' = [conc EXCEPT !.mu = LockTaken(@, t), !.th[t].pc = "locked"]
    /\ UNCHANGED <<fs, out, rp, msm>>

\* msm.mu.RLock() returns
AcquireRLock(t) ==
    /\ conc.made
    /\ conc.th[t].pc = "rlock"
    /\ CanRLock(conc.mu)
    /\ conc' = [conc EXCEPT !.mu = RLockTaken(@, t), !.th[t].pc = "rlocked"]
    /\ UNCHANGED <<fs, out, rp, msm>>

\* CreateModuleResource under msm.mu: up to the assignment of cfg to the
\* tracked resource, or to its return with the deferred msm.mu.Unlock() on the
\* two other paths
CreateBody(t) ==
    /\ conc.made
    /\ conc.th[t].pc = "locked"
    /\ conc.th[t].op = "CreateModuleResource"
    /\ LET cfg == conc.th[t].arg
           existing == conc.modules[SharedName]
           id == Fresh(conc)
           created(marked) ==
               Collect([conc EXCEPT
                   !.heap[id] = NewModuleResource(cfg, 0),
                   !.modules[SharedName] = id,
                   !.node[SharedName] = [exists |-> TRUE, current |-> id, marked |-> marked],
                   !.mu = Unlock(@, t),
                   !.th[t] = Idle])
       IN  IF existing # 0
           THEN conc' = [conc EXCEPT !.th[t].pc = "writecfg", !.th[t].res = existing]
           ELSE IF conc.node[SharedName].exists
           THEN \E node \in SwapResource(conc.node[SharedName]) : conc' = created(node.marked)
           ELSE \/ conc' = created(FALSE)
                \/ conc' = [conc EXCEPT !.mu = Unlock(@, t), !.th[t] = Idle]
    /\ UNCHANGED <<fs, out, rp, msm>>

\* existingResource.cfg = cfg, and the return with the deferred
\* msm.mu.Unlock()
WriteCfg(t) ==
    /\ conc.made
    /\ conc.th[t].pc = "writecfg"
    /\ conc' = Collect([conc EXCEPT !.heap[conc.th[t].res].cfg = conc.th[t].arg,
                                     !.mu = Unlock(@, t),
                                     !.th[t] = Idle])
    /\ UNCHANGED <<fs, out, rp, msm>>

\* RemoveModuleResource under msm.mu, and its return with the deferred
\* msm.mu.Unlock()
RemoveBody(t) ==
    /\ conc.made
    /\ conc.th[t].pc = "locked"
    /\ conc.th[t].op = "RemoveModuleResource"
    /\ conc' = Collect([conc EXCEPT
                   !.node[SharedName] = IF @.exists THEN MarkForRemoval(@) ELSE @,
                   !.modules[SharedName] = 0,
                   !.mu = Unlock(@, t),
                   !.th[t] = Idle])
    /\ UNCHANGED <<fs, out, rp, msm>>

\* moduleResource, exists := msm.modules[moduleName] and msm.mu.RUnlock(), in
\* the two updates and in GetModuleResource; ListModuleResources copies the map
Lookup(t) ==
    /\ conc.made
    /\ conc.th[t].pc = "rlocked"
    /\ LET moduleResource == conc.modules[SharedName]
           exists == moduleResource # 0
           op == conc.th[t].op
           update == op \in {"UpdatePackageStatus", "UpdateModuleStatus"}
       IN  conc' = [conc EXCEPT
               !.mu = RUnlock(@, t),
               !.th[t] = IF op = "ListModuleResources" \/ (op = "GetModuleResource" /\ ~exists)
                         THEN Idle
                         ELSE IF ~exists
                         THEN [@ EXCEPT !.pc = "return", !.err = ErrNotFound(SharedName)]
                         ELSE [@ EXCEPT !.res = moduleResource,
                                        !.pc = IF update THEN "reslock" ELSE "resrlock"],
               !.rmu = IF exists /\ update
                       THEN [@ EXCEPT ![moduleResource] = LockCalled(@, t)]
                       ELSE @]
    /\ UNCHANGED <<fs, out, rp, msm>>

\* mr.mu.Lock() returns
AcquireResourceLock(t) ==
    /\ conc.made
    /\ conc.th[t].pc = "reslock"
    /\ CanLock(conc.rmu[conc.th[t].res])
    /\ conc' = [conc EXCEPT !.rmu[conc.th[t].res] = LockTaken(@, t),
                             !.th[t].pc = "inresource"]
    /\ UNCHANGED <<fs, out, rp, msm>>

\* ModuleResource.UpdatePackageStatus or UpdateModuleStatus under mr.mu: the
\* assignment, the log line that reads mr.cfg.Name, and the unlock
UpdateResource(t) ==
    /\ conc.made
    /\ conc.th[t].pc = "inresource"
    /\ LET id == conc.th[t].res
       IN  conc' = [conc EXCEPT
               !.heap[id] = IF conc.th[t].op = "UpdatePackageStatus"
                            THEN ModuleResourceUpdatePackageStatus(@, conc.th[t].arg)
                            ELSE ModuleResourceUpdateModuleStatus(@, conc.th[t].arg),
               !.rmu[id] = Unlock(@, t),
               !.th[t].pc = "swap"]
    /\ UNCHANGED <<fs, out, rp, msm>>

\* updateResourceInGraph; swapped and tracked record for the caller whether
\* the node took the resource and whether the resource was the tracked one
\* then.  A resource that was looked up and is tracked no more is one that a
\* RemoveModuleResource, which has returned, took out of msm.modules.
UpdateResourceInGraph(t) ==
    /\ conc.made
    /\ conc.th[t].pc = "swap"
    /\ LET id == conc.th[t].res
       IN  IF conc.node[SharedName].exists
           THEN \E node \in SwapResource(conc.node[SharedName]) :
                    conc' = Collect([conc EXCEPT
                                !.node[SharedName] = [exists |-> TRUE, current |-> id,
                                                      marked |-> node.marked],
                                !.th[t].swapped = TRUE,
                                !.th[t].tracked = (conc.modules[SharedName] = id),
                                !.th[t].pc = "return"])
           ELSE conc' = [conc EXCEPT !.th[t].pc = "return"]
    /\ UNCHANGED <<fs, out, rp, msm>>

\* mr.mu.RLock() returns in DetailedStatus
AcquireResourceRLock(t) ==
    /\ conc.made
    /\ conc.th[t].pc = "resrlock"
    /\ CanRLock(conc.rmu[conc.th[t].res])
    /\ conc' = [conc EXCEPT !.rmu[conc.th[t].res] = RLockTaken(@, t),
                             !.th[t].pc = "reading"]
    /\ UNCHANGED <<fs, out, rp, msm>>

\* DetailedStatus has read cfg and the statuses; the deferred mr.mu.RUnlock()
DetailedStatus(t) ==
    /\ conc.made
    /\ conc.th[t].pc = "reading"
    /\ conc' = Collect([conc EXCEPT !.rmu[conc.th[t].res] = RUnlock(@, t),
                                     !.th[t] = Idle])
    /\ UNCHANGED <<fs, out, rp, msm>>

\* the caller of an update has its result and drops it
Return(t) ==
    /\ conc.made
    /\ conc.th[t].pc = "return"
    /\ conc' = Collect([conc EXCEPT !.th[t] = Idle])
    /\ UNCHANGED <<fs, out, rp, msm>>

\* a call is made
Start(t) ==
    \/ StartCreateModuleResource(t)
    \/ StartRemoveModuleResource(t)
    \/ StartUpdatePackageStatus(t)
    \/ StartUpdateModuleStatus(t)
    \/ StartGetModuleResource(t)
    \/ StartListModuleResources(t)

\* a call that was made goes on
Step(t) ==
    \/ AcquireLock(t)
    \/ AcquireRLock(t)
    \/ CreateBody(t)
    \/ WriteCfg(t)
    \/ RemoveBody(t)
    \/ Lookup(t)
    \/ AcquireResourceLock(t)
    \/ UpdateResource(t)
    \/ UpdateResourceInGraph(t)
    \/ AcquireResourceRLock(t)
    \/ DetailedStatus(t)
    \/ Return(t)

NextConcurrent ==
    \/ ShareManager
    \/ \E t \in Threads : Start(t)
    \/ \E t \in Threads : Step(t)

SpecConcurrent == Init /\ [][NextConcurrent]_vars

\* every goroutine that can go on does so in the end: the runtime schedules
\* every runnable goroutine, and sync.RWMutex hands the lock to a goroutine
\* blocked in Lock or RLock before those that come later
SpecConcurrentFair == SpecConcurrent /\ \A t \in Threads : SF_vars(Step(t))

\* goroutine t has an update at its return
UpdateReturned(t) ==
    /\ conc.made
    /\ conc.th[t].op \in {"UpdatePackageStatus", "UpdateModuleStatus"}
    /\ conc.th[t].pc = "return"

\* C34: removal is final with respect to status updates: in every
\* interleaving of RemoveModuleResource(name) with an UpdatePackageStatus or
\* UpdateModuleStatus of the same name, once RemoveModuleResource has returned
\* no status update swaps the resource of the removed module into the graph
\* node again, and an update that returns nil was applied to a module that was
\* still tracked when its graph swap happened.
C34_RemovalIsFinal ==
    \A t \in Threads :
        UpdateReturned(t) =>
            /\ conc.th[t].swapped => conc.th[t].tracked
            /\ conc.th[t].err = NoErr => conc.th[t].tracked

\* an update that found its module tracked swaps the resource into the node
\* after RemoveModuleResource has marked the node, untracked the module and
\* returned, and returns nil
LateSwapAfterRemoval ==
    \E t \in Threads :
        /\ UpdateReturned(t)
        /\ conc.th[t].err = NoErr
        /\ conc.th[t].swapped
        /\ ~conc.th[t].tracked
        /\ conc.modules[SharedName] = 0
        /\ conc.node[SharedName].current = conc.th[t].res

\* goroutine t holds or waits for no lock other than the one it is blocked on
HoldsNothing(t) ==
    /\ conc.mu.writer # t
    /\ t \notin conc.mu.readers
    /\ \A id \in 1..MaxResources : conc.rmu[id].writer # t /\ t \notin conc.rmu[id].readers

\* goroutine t is blocked in Lock or RLock
Waits(t) ==
    \/ conc.th[t].pc = "lock" /\ ~CanLock(conc.mu)
    \/ conc.th[t].pc = "rlock" /\ ~CanRLock(conc.mu)
    \/ conc.th[t].pc = "reslock" /\ ~CanLock(conc.rmu[conc.th[t].res])
    \/ conc.th[t].pc = "resrlock" /\ ~CanRLock(conc.rmu[conc.th[t].res])

\* a goroutine that is blocked holds no lock, and while a call is under way a
\* goroutine can go on
NoCyclicWait ==
    conc.made =>
        /\ \A t \in Threads : Waits(t) => HoldsNothing(t)
        /\ (\E t \in Threads : conc.th[t].pc # "idle") =>
               (\E t \in Threads : conc.th[t].pc # "idle" /\ ~Waits(t))

\* C36: every interleaving of concurrent CreateModuleResource,
\* RemoveModuleResource, UpdatePackageStatus, UpdateModuleStatus,
\* GetModuleResource, ListModuleResources and the getters and DetailedStatus of
\* ModuleResource terminates: the lock of the manager and the lock of a
\* resource are never held in a cyclic wait, so no deadlock is reachable.
C36_CallsTerminate ==
    /\ []NoCyclicWait
    /\ \A t \in Threads : (conc.made /\ conc.th[t].pc # "idle") ~> (conc.made /\ conc.th[t].pc = "idle")

\* a goroutine is blocked in msm.mu.Lock() while the other holds the read
\* lock of the manager
C36_Witness ==
    /\ conc.made
    /\ \E t, u \in Threads :
           /\ conc.th[t].pc = "lock"
           /\ conc.th[u].pc = "rlocked"
           /\ Waits(t)

\* C37: every write of the cfg field of a ModuleResource is mutually exclusive
\* with every read of it: no interleaving lets the config update that
\* CreateModuleResource makes on a tracked module run at the same time as
\* DetailedStatus, UpdatePackageStatus or UpdateModuleStatus reading cfg of
\* the same resource.
C37_CfgAccessExclusive ==
    conc.made =>
        \A t, u \in Threads :
            ~ /\ conc.th[t].pc = "writecfg"
              /\ conc.th[u].pc \in {"inresource", "reading"}
              /\ conc.th[u].res = conc.th[t].res

\* CreateModuleResource assigns cfg under msm.mu while DetailedStatus reads it
\* under the read lock of the resource
CfgWrittenWhileRead ==
    /\ conc.made
    /\ \E t, u \in Threads :
           /\ conc.th[t].pc = "writecfg"
           /\ conc.th[u].pc = "reading"
           /\ conc.th[u].res = conc.th[t].res
           /\ conc.mu.writer = t
           /\ u \in conc.rmu[conc.th[u].res].readers

====
